---------------------------- MODULE Spec2Model ----------------------------
(***************************************************************************)
(* Placement expression graph of MultibodyModeling/PlacementRep.h.         *)
(*                                                                         *)
(* Placement nodes (PlacementRep objects) live in an arena `nodes`; a      *)
(* Placement handle, the placement of a Feature, and an operand position   *)
(* of an expression each hold the id of the node they own.  Cache slots    *)
(* (PlacementValue objects) belong to Features and are only pointed to.    *)
(*                                                                         *)
(* assert() is the code's fail-fast device: a failed assert ends the       *)
(* process (status = "aborted", and no further operation runs).            *)
(* SIMTK_THROW is a typed exception: the call returns it to the caller     *)
(* (last.res = <<"threw", ...>>) and the process goes on.                  *)
(*                                                                         *)
(* The unilateral contacts of Simbody's ConditionalConstraint.h switch     *)
(* their Constraint on and off in a State (`disabled`) and compute an      *)
(* effective coefficient of restitution.                                   *)
(***************************************************************************)
EXTENDS Integers, Sequences, FiniteSets, TLC

VARIABLES
    nodes,      \* arena: node id -> PlacementRep object, or NoNode
    handles,    \* client Placement handles: handle name -> node id (0: empty)
    featPl,     \* the placement of each Feature: Feature -> node id (0: none)
    slots,      \* cache slots (PlacementValueRep): slot id -> [valid, value]
    stack,      \* call stack of the realize() in progress: Seq of [n, pc]
    done,       \* nodes whose realize() has returned during the current call
    wrote,      \* nodes that have set their cache slot during the current call
    reads,      \* dependency values read during the current call
    status,     \* "ok" | "aborted" (failed assert)
    last,       \* the most recent operation and its result
    cloned,     \* has the Feature tree been cloned?
    repairs,    \* number of completed repair passes on the clone
    disabled    \* State: is the Constraint of each unilateral contact disabled?

vars == <<nodes, handles, featPl, slots, stack, done, wrote, reads,
          status, last, cloned, repairs, disabled>>

---------------------------------------------------------------------------
(* Bounds *)

\* cells of the arena (the memory available for PlacementRep objects)
MaxNodes == 20
\* most nodes alive at once while a client builds placements by hand
MaxLive == 5

NodeIds == 1..MaxNodes

Handles == {"h1", "h2"}

---------------------------------------------------------------------------
(* The Feature collaborator (external; Feature.h is not part of the       *)
(* source).  A fixed tree T rooted at "R", its clone T2 rooted at "R2",   *)
(* and the Features "Z", "P" and "Q" outside both.                         *)

OldTree == {"R", "S", "V", "O"}
NewTree == {"R2", "S2", "V2", "O2"}
Features == OldTree \cup NewTree \cup {"Z", "P", "Q"}

NoFeature == "none"

getParentFeature(f) ==
    CASE f = "S"  -> "R"
      [] f = "V"  -> "R"
      [] f = "S2" -> "R2"
      [] f = "V2" -> "R2"
      [] f = "O"  -> "R"
      [] f = "O2" -> "R2"
      [] f = "Q"  -> "Z"
      [] OTHER    -> NoFeature

hasParentFeature(f) == getParentFeature(f) # NoFeature

\* Feature kind (Station::isInstanceOf, Frame::isInstanceOf, ...): R is a
\* Frame, O its orientation, S a Station on it, V a Vec3 parameter of it,
\* Z a Real parameter, P a Station without a parent, Q a Station on Z
FeatureKind(f) ==
    CASE f \in {"R", "R2"} -> "Frame"
      [] f \in {"S", "S2", "P", "Q"} -> "Station"
      [] f \in {"V", "V2"} -> "Vec3"
      [] f \in {"O", "O2"} -> "Orientation"
      [] OTHER             -> "Real"

\* Frame::getOrientation: the orientation Feature of a frame
getOrientation(f) == IF f = "R" THEN "O" ELSE "O2"

\* Feature::getFullName: the path of names from the root
getFullName(f) ==
    IF hasParentFeature(f) THEN <<getParentFeature(f), f>> ELSE <<f>>

RECURSIVE isFeatureInFeatureTree(_, _)
isFeatureInFeatureTree(root, f) ==
    \/ f = root
    \/ /\ hasParentFeature(f)
       /\ isFeatureInFeatureTree(root, getParentFeature(f))

\* the structural "same position" mapping from the tree under oldRoot to
\* the tree under newRoot (NoFeature: no counterpart)
findCorrespondingFeature(oldRoot, f, newRoot) ==
    IF oldRoot = "R" /\ newRoot = "R2" /\ isFeatureInFeatureTree(oldRoot, f)
    THEN CASE f = "R" -> "R2" [] f = "S" -> "S2" [] f = "V" -> "V2"
           [] f = "O" -> "O2"
    ELSE NoFeature

---------------------------------------------------------------------------
(* Cache slots.  Every Feature owns the slots <<f, 0>> and <<f, 1>>.       *)

SlotIdx == {0, 1}
SlotIds == {<<f, i>> : f \in Features, i \in SlotIdx}
NoSlot == <<>>

SlotOwner(s) == s[1]

\* PlacementValueRep(): valid(false); the value member is not initialised
Unset == <<"unset">>
NewSlot == [valid |-> FALSE, value |-> Unset]

\* PlacementValueRep_<T>::setValue
setValue(sl, s, v) == [sl EXCEPT ![s] = [valid |-> TRUE, value |-> v]]

\* what a read of a slot's value member can yield; a member that was never
\* set is indeterminate: any value of the slot's type
JunkValues == {<<"junk", 0>>, <<"junk", 1>>}

\* PlacementValueRep_<T>::getValue: returns the value member, valid or not
SlotReadable(sl, s) ==
    IF sl[s].value = Unset THEN JunkValues ELSE {sl[s].value}

\* the slot of the new tree that corresponds to a slot of the old tree
findCorrespondingPlacementValue(oldRoot, s, newRoot) ==
    IF s = NoSlot THEN NoSlot
    ELSE IF findCorrespondingFeature(oldRoot, SlotOwner(s), newRoot) = NoFeature
         THEN NoSlot
         ELSE <<findCorrespondingFeature(oldRoot, SlotOwner(s), newRoot), s[2]>>

---------------------------------------------------------------------------
(* Placement nodes *)

\* PlacementType: the kinds that have concrete PlacementRep classes
Kinds == {"Real", "Vec3", "Station", "Direction", "Orientation", "Frame"}

NoHandle == <<>>
NoOp == [fam |-> "none", kind |-> "none"]
NoValue == <<>>

\* ck: the construction kind of the concrete class ("const", "ref", "expr";
\* "frame" is FrameExprPlacementRep, whose args are <<orientation, origin>>)
NoNode == [ck |-> "none", vk |-> "none", val |-> NoValue, feat |-> NoFeature,
           idx |-> -1, op |-> NoOp, args |-> <<>>, handle |-> NoHandle,
           owner |-> NoFeature, indexInOwner |-> -1, slot |-> NoSlot]

\* PlacementRep(): myHandle(0), owner(0), indexInOwner(-1), valueSlot(0)
PlacementRep(ck, vk) == [NoNode EXCEPT !.ck = ck, !.vk = vk]

Live(ns) == {i \in NodeIds : ns[i] # NoNode}
FreeIds(ns) == NodeIds \ Live(ns)

\* operator new: the lowest free cell of the arena
Fresh(ns) == CHOOSE i \in FreeIds(ns) : \A j \in FreeIds(ns) : i <= j

RECURSIVE Subtree(_, _)
\* the node n and every node held, directly or not, in its operand positions
Subtree(ns, n) ==
    IF n \notin NodeIds \/ ns[n] = NoNode THEN {}
    ELSE {n} \cup UNION {Subtree(ns, ns[n].args[i]) : i \in 1..Len(ns[n].args)}

RECURSIVE TreeSize(_, _)
\* number of PlacementRep objects a deep copy of n allocates
TreeSize(ns, n) ==
    IF n \notin NodeIds \/ ns[n] = NoNode THEN 0
    ELSE LET RECURSIVE Sum(_)
             Sum(i) == IF i > Len(ns[n].args) THEN 0
                       ELSE TreeSize(ns, ns[n].args[i]) + Sum(i + 1)
         IN 1 + Sum(1)

hasValueSlot(nd) == nd.slot # NoSlot
hasOwner(nd) == nd.owner # NoFeature
hasHandle(nd) == nd.handle # NoHandle

---------------------------------------------------------------------------
(* Literal values *)

RealValue(r) == <<"Real", r>>
Vec3Value(x, y, z) == <<"Vec3", x, y, z>>
Mat33Value(m) == <<"Mat33", m>>
NaNVec3 == <<"Vec3NaN">>

\* Mat33::operator()(j): column j of an orientation value
Column(m, j) == <<"col", m, j>>
\* Mat34(c0, c1, c2, origin)
Mat34Value(c0, c1, c2, org) == <<"Mat34", c0, c1, c2, org>>

\* Vec3::norm for the axis-aligned literals used here
Norm(v) == v[2] + v[3] + v[4]

\* DirectionConstantPlacementRep: dir /= dir.norm()
Normalized(v) ==
    IF Norm(v) = 0 THEN NaNVec3
    ELSE Vec3Value(v[2] \div Norm(v), v[3] \div Norm(v), v[4] \div Norm(v))

\* element i of an aggregate value (a reference with an index)
Element(v, i) ==
    IF v[1] = "Vec3" THEN RealValue(v[i + 2]) ELSE <<"elt", v, i>>

---------------------------------------------------------------------------
(* Operator descriptors (PlacementOp and its concrete classes) *)

RealUnary == {"Negate", "Abs", "Sqrt", "Exp", "Log", "Sin", "Cos", "Asin",
              "Acos"}
RealBinary == {"Add", "Subtract", "Multiply", "Divide"}

RealOpKinds == RealUnary \cup {"VectorLength"} \cup RealBinary \cup
               {"DotProduct2", "DotProduct3", "PointDistance",
                "AngleBetweenVectors"}
Vec3OpKinds == {"RecastStation", "RecastDirection", "Negate", "Add",
                "Subtract", "StationDifference", "ScalarMultiply",
                "ScalarDivide", "CrossProduct"}
StationOpKinds == {"RecastVec3", "Add", "Subtract"}
DirectionOpKinds == {"Negate", "Normalize"}
OrientationOpKinds == {"NoneYet"}
FrameOpKinds == {"NoneYet"}

OpKindsOf(fam) ==
    CASE fam = "Real"        -> RealOpKinds
      [] fam = "Vec3"        -> Vec3OpKinds
      [] fam = "Station"     -> StationOpKinds
      [] fam = "Direction"   -> DirectionOpKinds
      [] fam = "Orientation" -> OrientationOpKinds
      [] fam = "Frame"       -> FrameOpKinds

Op(fam, kind) == [fam |-> fam, kind |-> kind]

\* the kinds whose PlacementRep can be used as a direction
DirectionCastable(k) == k \in {"Direction", "Vec3"}

\* RealOps::checkArgs on the kinds of the operands
RealCheckArgs(kind, ks) ==
    CASE kind \in RealUnary ->
            Len(ks) = 1 /\ ks[1] = "Real"
      [] kind = "VectorLength" ->
            Len(ks) = 1 /\ ks[1] = "Vec3"
      [] kind \in RealBinary ->
            Len(ks) = 2 /\ ks[1] = "Real" /\ ks[2] = "Real"
      [] kind = "DotProduct2" ->
            Len(ks) = 2 /\ ks[1] = "Vec2" /\ ks[2] = "Vec2"
      [] kind = "DotProduct3" ->
            Len(ks) = 2 /\ ks[1] = "Vec3" /\ ks[2] = "Vec3"
      [] kind = "PointDistance" ->
            Len(ks) = 2 /\ ks[1] = "Station" /\ ks[2] = "Station"
      [] kind = "AngleBetweenVectors" ->
            Len(ks) = 2 /\ DirectionCastable(ks[1]) /\ DirectionCastable(ks[2])
      [] OTHER -> FALSE

\* Vec3Ops::checkArgs
Vec3CheckArgs(kind, ks) ==
    CASE kind = "RecastStation" ->
            Len(ks) = 1 /\ ks[1] = "Station"
      [] kind = "RecastDirection" ->
            Len(ks) = 1 /\ ks[1] = "Direction"
      [] kind = "Negate" ->
            Len(ks) = 1 /\ ks[1] = "Vec3"
      [] kind \in {"Add", "Subtract", "CrossProduct"} ->
            Len(ks) = 2 /\ ks[1] = "Vec3" /\ ks[2] = "Vec3"
      [] kind = "StationDifference" ->
            Len(ks) = 2 /\ ks[1] = "Station" /\ ks[2] = "Station"
      [] kind \in {"ScalarMultiply", "ScalarDivide"} ->
            /\ Len(ks) = 2
            /\ ks[1] \in {"Vec3", "Station", "Direction"}
            /\ ks[2] = "Real"
      [] OTHER -> FALSE

\* StationOps::checkArgs
StationCheckArgs(kind, ks) ==
    CASE kind = "RecastVec3" ->
            Len(ks) = 1 /\ ks[1] = "Vec3"
      [] kind \in {"Add", "Subtract"} ->
            Len(ks) = 2 /\ ks[1] = "Station" /\ ks[2] = "Vec3"
      [] OTHER -> FALSE

\* DirectionOps::checkArgs
DirectionCheckArgs(kind, ks) ==
    CASE kind = "Negate" ->
            Len(ks) = 1 /\ ks[1] = "Direction"
      [] kind = "Normalize" ->
            Len(ks) = 1 /\ ks[1] \in {"Station", "Vec3"}
      [] OTHER -> FALSE

\* PlacementOp::checkArgs (virtual), on the kinds of the operands;
\* OrientationOps and FrameOps have no operator yet
checkArgs(op, ks) ==
    CASE op.fam = "Real"      -> RealCheckArgs(op.kind, ks)
      [] op.fam = "Vec3"      -> Vec3CheckArgs(op.kind, ks)
      [] op.fam = "Station"   -> StationCheckArgs(op.kind, ks)
      [] op.fam = "Direction" -> DirectionCheckArgs(op.kind, ks)
      [] OTHER                -> FALSE

\* faulty variant: binary builders that take their operands in either
\* order
BuilderOperandsEitherOrder(op) ==
    IF op.fam = "Station" /\ op.kind \in {"Add", "Subtract"}
    THEN {<<"Station", "Vec3">>, <<"Vec3", "Station">>}
    ELSE IF op.fam = "Vec3" /\ op.kind \in {"ScalarMultiply", "ScalarDivide"}
    THEN {<<"Vec3", "Real">>, <<"Real", "Vec3">>}
    ELSE {}

\* the static builders of the expression classes (negateOp, addOp, ...):
\* the operand kinds each operator's builders take, by their parameter
\* types.  No builder exists for RealOps::AngleBetweenVectors.
BuilderOperands(op) ==
    CASE op.fam = "Real" /\ op.kind \in RealUnary -> {<<"Real">>}
      [] op.fam = "Real" /\ op.kind = "VectorLength" -> {<<"Vec3">>}
      [] op.fam = "Real" /\ op.kind \in RealBinary -> {<<"Real", "Real">>}
      [] op.fam = "Real" /\ op.kind = "PointDistance" ->
            {<<"Station", "Station">>}
      [] op.fam = "Real" /\ op.kind = "DotProduct2" -> {<<"Vec2", "Vec2">>}
      [] op.fam = "Real" /\ op.kind = "DotProduct3" -> {<<"Vec3", "Vec3">>}
      [] op.fam = "Vec3" /\ op.kind = "Negate" -> {<<"Vec3">>}
      [] op.fam = "Vec3" /\ op.kind = "RecastStation" -> {<<"Station">>}
      [] op.fam = "Vec3" /\ op.kind = "RecastDirection" -> {<<"Direction">>}
      [] op.fam = "Vec3" /\ op.kind \in {"Add", "Subtract", "CrossProduct"} ->
            {<<"Vec3", "Vec3">>}
      [] op.fam = "Vec3" /\ op.kind = "StationDifference" ->
            {<<"Station", "Station">>}
      [] op.fam = "Vec3" /\ op.kind \in {"ScalarMultiply", "ScalarDivide"} ->
            {<<"Vec3", "Real">>, <<"Station", "Real">>, <<"Direction", "Real">>}
      [] op.fam = "Station" /\ op.kind = "RecastVec3" -> {<<"Vec3">>}
      [] op.fam = "Station" /\ op.kind \in {"Add", "Subtract"} ->
            {<<"Station", "Vec3">>}
      [] op.fam = "Direction" /\ op.kind = "Negate" -> {<<"Direction">>}
      [] op.fam = "Direction" /\ op.kind = "Normalize" ->
            {<<"Station">>, <<"Vec3">>}
      [] OTHER -> {}

\* the kinds of the nodes in the operand positions ids
KindsOf(ns, ids) == [i \in 1..Len(ids) |-> ns[ids[i]].vk]

---------------------------------------------------------------------------
(* Cloning and construction, as functions of the arena *)

\* the Placement object embedded in operand position i of node parent
ArgHandle(parent, i) == <<"arg", parent, i>>

RECURSIVE clone(_, _), cloneArgs(_, _, _, _), cloneUnownedWithNewHandle(_, _, _)

\* faulty variant: a copy constructor that leaves the index of a Feature
\* reference at its default
cloneWithoutIndex(ns, src) ==
    LET id   == Fresh(ns)
        held == [ns EXCEPT ![id] = [ns[src] EXCEPT !.idx = -1]]
        r    == cloneArgs(held, ns[src].args, id, 1)
    IN  [ns |-> [r.ns EXCEPT ![id].args = r.ids], id |-> id]

\* PlacementRep::clone: new XPlacementRep(*this).  The default copy
\* constructor copies myHandle, owner, indexInOwner, valueSlot, the Feature
\* reference and the literal verbatim, and copies the operand Placements.
clone(ns, src) ==
    LET id   == Fresh(ns)
        held == [ns EXCEPT ![id] = ns[src]]
        r    == cloneArgs(held, ns[src].args, id, 1)
    IN  [ns |-> [r.ns EXCEPT ![id].args = r.ids], id |-> id]

\* copy of the operand Placements of a node: each copy owns a deep copy of
\* the operand's node
cloneArgs(ns, args, parent, i) ==
    IF i > Len(args) THEN [ns |-> ns, ids |-> <<>>]
    ELSE LET c    == cloneUnownedWithNewHandle(ns, args[i], ArgHandle(parent, i))
             rest == cloneArgs(c.ns, args, parent, i + 1)
         IN  [ns |-> rest.ns, ids |-> <<c.id>> \o rest.ids]

\* a faulty variant: the clone keeps the owner and index of the source
cloneKeepingOwner(ns, src, p) ==
    LET c == clone(ns, src)
    IN  [ns |-> [c.ns EXCEPT ![c.id].handle = p], id |-> c.id]

\* PlacementRep::cloneUnownedWithNewHandle(p)
cloneUnownedWithNewHandle(ns, src, p) ==
    LET c == clone(ns, src)
    IN  [ns |-> [c.ns EXCEPT ![c.id].handle = p,
                             ![c.id].owner = NoFeature,
                             ![c.id].indexInOwner = -1],
         id |-> c.id]

\* Placement::operator=(const Placement&) / copy constructor into the
\* Placement object p
PlacementCopy(ns, src, p) == cloneUnownedWithNewHandle(ns, src, p)

\* ~Placement: deletes the node and, through its operand Placements, every
\* node below it
DeleteRep(ns, n) ==
    [i \in NodeIds |-> IF i \in Subtree(ns, n) THEN NoNode ELSE ns[i]]

RECURSIVE CopyOperands(_, _, _, _)
\* faulty variant: the operands are stored in the opposite order
CopyOperandsSwapped(ns, a, parent, i) ==
    LET RECURSIVE Go(_, _)
        Go(m, j) ==
           IF j > Len(a) THEN [ns |-> m, ids |-> <<>>]
           ELSE LET c    == PlacementCopy(m, a[Len(a) + 1 - j], ArgHandle(parent, j))
                    rest == Go(c.ns, j + 1)
                IN  [ns |-> rest.ns, ids |-> <<c.id>> \o rest.ids]
    IN  Go(ns, i)

\* PlacementExpr::PlacementExpr: for (i...) args[i] = *a[i];
CopyOperands(ns, a, parent, i) ==
    IF i > Len(a) THEN [ns |-> ns, ids |-> <<>>]
    ELSE LET c    == PlacementCopy(ns, a[i], ArgHandle(parent, i))
             rest == CopyOperands(c.ns, a, parent, i + 1)
         IN  [ns |-> rest.ns, ids |-> <<c.id>> \o rest.ids]

\* faulty variant: the expression holds the caller's operand nodes
\* themselves instead of copies
PlacementExprAliasing(ns, op, a) ==
    LET id == Fresh(ns)
    IN  [ns |-> [ns EXCEPT ![id] = [PlacementRep("expr", op.fam) EXCEPT
                                       !.op = op, !.args = a]],
         id |-> id,
         ok |-> checkArgs(op, KindsOf(ns, a))]

\* faulty variant: the constructor without assert(f.checkArgs(args))
PlacementExprUnchecked(ns, op, a) ==
    LET id   == Fresh(ns)
        held == [ns EXCEPT ![id] = [PlacementRep("expr", op.fam) EXCEPT !.op = op]]
        r    == CopyOperands(held, a, id, 1)
    IN  [ns |-> [r.ns EXCEPT ![id].args = r.ids], id |-> id, ok |-> TRUE]

\* new XExprPlacementRep(f, a): PlacementRep(), PlacementExpr(f, a) with
\* assert(f.checkArgs(args)).  ok = FALSE: the assert failed.
PlacementExpr(ns, op, a) ==
    LET id   == Fresh(ns)
        held == [ns EXCEPT ![id] = [PlacementRep("expr", op.fam) EXCEPT !.op = op]]
        r    == CopyOperands(held, a, id, 1)
    IN  [ns |-> [r.ns EXCEPT ![id].args = r.ids],
         id |-> id,
         ok |-> checkArgs(op, KindsOf(r.ns, r.ids))]

\* new FrameExprPlacementRep(o, s): orientation(o), origin(s)
FrameExprPlacementRep(ns, o, s) ==
    LET id   == Fresh(ns)
        held == [ns EXCEPT ![id] = PlacementRep("frame", "Frame")]
        r    == CopyOperands(held, <<o, s>>, id, 1)
    IN  [ns |-> [r.ns EXCEPT ![id].args = r.ids], id |-> id]

\* new XConstantPlacementRep(v); the Direction constant stores v / |v|
ConstantPlacementRep(vk, v) ==
    [PlacementRep("const", vk) EXCEPT
        !.val = IF vk = "Direction" THEN Normalized(v) ELSE v]

\* new XFeaturePlacementRep(f, index): FeatureReference(f, index)
FeaturePlacementRep(vk, f, index) ==
    [PlacementRep("ref", vk) EXCEPT !.feat = f, !.idx = index]

---------------------------------------------------------------------------
(* Queries on a node *)

RECURSIVE isConstant(_, _)

\* PlacementExpr::exprIsConstant: "Return true if all the arguments are
\* constant."
exprIsConstant(ns, args) ==
    \A i \in 1..Len(args) : isConstant(ns, args[i])

\* faulty variant: the expression and frame classes without their override
\* (PlacementRep::isConstant answers false)
isConstantDefault(ns, n) == ns[n].ck = "const"

\* PlacementRep::isConstant (virtual): constants true, references
\* refIsConstant() = false, expressions exprIsConstant(), frame compositions
\* orientation.isConstant() && origin.isConstant()
isConstant(ns, n) ==
    CASE ns[n].ck = "const" -> TRUE
      [] ns[n].ck = "ref"   -> FALSE
      [] ns[n].ck = "expr"  -> exprIsConstant(ns, ns[n].args)
      [] ns[n].ck = "frame" -> /\ isConstant(ns, ns[n].args[1])
                               /\ isConstant(ns, ns[n].args[2])
      [] OTHER              -> FALSE

RECURSIVE dependsOn(_, _, _, _), FeatureDependsOn(_, _, _, _)

\* Feature::dependsOn(f): a Feature depends on itself and on whatever its
\* placement depends on
FeatureDependsOn(ns, fp, g, f) ==
    \/ g = f
    \/ /\ fp[g] # 0
       /\ dependsOn(ns, fp, fp[g], f)

\* faulty variant: a reference that answers like the base class
refDependsOnNothing(ns, fp, nd, f) == FALSE

\* FeatureReference::refDependsOn: assert(feature); feature->dependsOn(f)
refDependsOn(ns, fp, nd, f) == FeatureDependsOn(ns, fp, nd.feat, f)

\* PlacementExpr::exprDependsOn: "Return true if any of the arguments
\* depend on f."
exprDependsOn(ns, fp, args, f) ==
    \E i \in 1..Len(args) : dependsOn(ns, fp, args[i], f)

\* faulty variant: no class overrides PlacementRep::dependsOn
dependsOnDefault(ns, fp, n, f) == FALSE

\* PlacementRep::dependsOn (virtual): false unless overridden; references
\* refDependsOn, expressions exprDependsOn, frame compositions
\* orientation.dependsOn(f) || origin.dependsOn(f)
dependsOn(ns, fp, n, f) ==
    CASE ns[n].ck = "ref"   -> refDependsOn(ns, fp, ns[n], f)
      [] ns[n].ck = "expr"  -> exprDependsOn(ns, fp, ns[n].args, f)
      [] ns[n].ck = "frame" -> \/ dependsOn(ns, fp, ns[n].args[1], f)
                               \/ dependsOn(ns, fp, ns[n].args[2], f)
      [] OTHER              -> FALSE

RECURSIVE isLimitedToSubtree(_, _, _)

\* the answer "limited": offender = 0; return true
Limited == [ok |-> TRUE, offender |-> NoFeature]

\* FeatureReference::refIsLimitedToSubtree: the referenced Feature is the
\* offender when it is not in the tree under root
refIsLimitedToSubtree(nd, root) ==
    IF isFeatureInFeatureTree(root, nd.feat) THEN Limited
    ELSE [ok |-> FALSE, offender |-> nd.feat]

\* PlacementExpr::exprIsLimitedToSubtree: the answer of the first operand
\* that is not limited, if any
exprIsLimitedToSubtree(ns, args, root) ==
    LET bad == {i \in 1..Len(args) :
                   ~isLimitedToSubtree(ns, args[i], root).ok}
    IN  IF bad = {} THEN Limited
        ELSE isLimitedToSubtree(
                ns, args[CHOOSE i \in bad : \A j \in bad : i <= j], root)

\* faulty variant: no class overrides PlacementRep::isLimitedToSubtree
isLimitedToSubtreeDefault(ns, n, root) == Limited

\* PlacementRep::isLimitedToSubtree (virtual): { offender=0; return true; }
\* unless overridden by a reference, an expression or a frame composition
\* (orientation, then origin)
isLimitedToSubtree(ns, n, root) ==
    CASE ns[n].ck = "ref"   -> refIsLimitedToSubtree(ns[n], root)
      [] ns[n].ck = "expr"  -> exprIsLimitedToSubtree(ns, ns[n].args, root)
      [] ns[n].ck = "frame" -> exprIsLimitedToSubtree(ns, ns[n].args, root)
      [] OTHER              -> Limited

\* the Feature collaborator's ancestor combinator: the youngest Feature
\* that is an ancestor of both f and g (or one of them), NoFeature if none
youngestCommonAncestor(f, g) ==
    LET RECURSIVE Up(_)
        Up(x) == IF x = NoFeature THEN NoFeature
                 ELSE IF isFeatureInFeatureTree(x, g) THEN x
                 ELSE Up(getParentFeature(x))
    IN  Up(f)

\* FeatureReference::refFindAncestorFeature: the referenced Feature if it is
\* in the tree under root, no Feature (0) otherwise
refFindAncestorFeature(nd, root) ==
    IF isFeatureInFeatureTree(root, nd.feat) THEN nd.feat ELSE NoFeature

RECURSIVE findAncestorFeature(_, _, _)

\* faulty variant: the constants' answer with the assert compiled out
findAncestorFeatureNull(ns, n, root) == <<"found", NoFeature>>

\* PlacementRep::findAncestorFeature (pure virtual).  Constants:
\* assert(false); references: refFindAncestorFeature; expressions and frame
\* compositions: the operands' answers combined
findAncestorFeature(ns, n, root) ==
    CASE ns[n].ck = "const" -> <<"abort">>
      [] ns[n].ck = "ref"   -> <<"found", refFindAncestorFeature(ns[n], root)>>
      [] OTHER ->
           LET RECURSIVE Combine(_, _)
               Combine(i, acc) ==
                  IF i > Len(ns[n].args) THEN <<"found", acc>>
                  ELSE LET r == findAncestorFeature(ns, ns[n].args[i], root)
                       IN  IF r = <<"abort">> THEN r
                           ELSE Combine(i + 1,
                                   IF i = 1 THEN r[2]
                                   ELSE youngestCommonAncestor(acc, r[2]))
           IN  Combine(1, NoFeature)

\* PlacementRep::isRealizable
isRealizable(ns, n) == hasValueSlot(ns[n]) \/ isConstant(ns, n)

\* the concrete classes that override XPlacementRep::getValue to return
\* the literal: Real, Vec3 and Orientation constants
OverridesGetValue(nd) ==
    nd.ck = "const" /\ nd.vk \in {"Real", "Vec3", "Orientation"}

\* XPlacementRep::getValue: the set of outcomes.  Without an override:
\* assert(hasValueSlot()); return PlacementValue_<T>::downcast(getValueSlot()).get()
getValue(ns, sl, n) ==
    IF OverridesGetValue(ns[n]) THEN {<<"value", ns[n].val>>}
    ELSE IF ~hasValueSlot(ns[n]) THEN {<<"abort">>}
    ELSE {<<"value", v>> : v \in SlotReadable(sl, ns[n].slot)}

---------------------------------------------------------------------------
(* Rendering *)

\* PlacementOp::getOpName of the concrete operator classes
OpText(op) ==
    CASE op.kind = "Negate"              -> "negate"
      [] op.kind = "Abs"                 -> "abs"
      [] op.kind = "Sqrt"                -> "sqrt"
      [] op.kind = "Exp"                 -> "exp"
      [] op.kind = "Log"                 -> "log"
      [] op.kind = "Sin"                 -> "sin"
      [] op.kind = "Cos"                 -> "cos"
      [] op.kind = "Asin"                -> "asin"
      [] op.kind = "Acos"                -> "acos"
      [] op.kind = "VectorLength"        -> "length"
      [] op.kind = "Add"                 -> "add"
      [] op.kind = "Subtract"            -> "sub"
      [] op.kind = "Multiply"            -> "mul"
      [] op.kind = "Divide"              -> "dvd"
      [] op.kind = "DotProduct3"         -> "dot3"
      [] op.kind = "DotProduct2"         -> "dot2"
      [] op.kind = "PointDistance"       -> "distance"
      [] op.kind = "AngleBetweenVectors" -> "angle"
      [] op.kind = "RecastStation"       -> "recastStation"
      [] op.kind = "RecastDirection"     -> "recastDirection"
      [] op.kind = "StationDifference"   -> "stationSub"
      [] op.kind = "ScalarMultiply"      -> "scalarMul"
      [] op.kind = "ScalarDivide"        -> "scalarDvd"
      [] op.kind = "CrossProduct"        -> "cross"
      [] op.kind = "RecastVec3"          -> "recastVec3"
      [] op.kind = "Normalize"           -> "normalize"
      [] OTHER                           -> "UNKNOWN OP"

getOpName(op) == OpText(op) \o "<" \o op.fam \o ">"

\* XConstantPlacementRep::toString: a text is a sequence of pieces, a
\* literal that is streamed as a number being a piece of its own
constToString(nd) ==
    CASE nd.vk = "Station" ->
            <<"Station[", IF nd.val = Vec3Value(0, 0, 0) THEN "0" ELSE nd.val,
              "]">>
      [] nd.vk = "Direction" ->
            <<"Direction[",
              CASE nd.val = Vec3Value(1, 0, 0) -> "X"
                [] nd.val = Vec3Value(0, 1, 0) -> "Y"
                [] nd.val = Vec3Value(0, 0, 1) -> "Z"
                [] OTHER -> nd.val,
              "]">>
      [] nd.vk = "Orientation" ->
            <<"Orientation[",
              IF nd.val = Mat33Value("I") THEN "I"
              ELSE <<Column(nd.val, 0), Column(nd.val, 1), Column(nd.val, 2)>>,
              "]">>
      [] OTHER -> <<nd.vk \o "[", nd.val, "]">>

\* FeatureReference::refToString: the full name of the Feature, and the
\* index of an indexed reference
refToString(nd) ==
    <<"Ref<", getFullName(nd.feat), ">">> \o
    (IF nd.idx = -1 THEN <<>> ELSE <<"[", nd.idx, "]">>)

RECURSIVE toString(_, _)

\* PlacementExpr::exprToString: opname(arg, ...)
exprToString(ns, op, args) ==
    <<getOpName(op), "(", [i \in 1..Len(args) |-> toString(ns, args[i])], ")">>

\* PlacementRep::toString (pure virtual); FrameExprPlacementRep::toString:
\* "Frame[" << orientation.toString() << ", " << origin.toString() << "]"
toString(ns, n) ==
    CASE ns[n].ck = "const" -> constToString(ns[n])
      [] ns[n].ck = "ref"   -> refToString(ns[n])
      [] ns[n].ck = "expr"  -> exprToString(ns, ns[n].op, ns[n].args)
      [] ns[n].ck = "frame" ->
            <<"Frame[", toString(ns, ns[n].args[1]), ", ",
              toString(ns, ns[n].args[2]), "]">>

---------------------------------------------------------------------------
(* Generic operators and casts *)

GenericUnaryOps == {"Negate", "Abs", "Sqrt", "Exp", "Log", "Sin", "Cos",
                    "Asin", "Acos", "Length", "Normalize"}
GenericBinaryOps == {"Add", "Sub", "Mul", "Dvd", "Distance", "Angle",
                     "DotProduct", "CrossProduct"}

\* no operand (the right-hand side of a unary operator)
NoKind == "none"

\* faulty variant: Vec3PlacementRep without its genericAdd
OverridesWithoutVec3Add(vk) ==
    CASE vk = "Real" ->
            {"Negate", "Abs", "Sqrt", "Exp", "Log", "Sin", "Cos", "Asin",
             "Acos", "Add", "Sub", "Mul", "Dvd"}
      [] vk = "Vec3" -> {"Negate", "Length", "Normalize", "Sub"}
      [] vk = "Station" -> {"Negate", "Length", "Normalize", "Add", "Sub"}
      [] OTHER -> {}

\* the generic operators each per-kind base class overrides
Overrides(vk) ==
    CASE vk = "Real" ->
            {"Negate", "Abs", "Sqrt", "Exp", "Log", "Sin", "Cos", "Asin",
             "Acos", "Add", "Sub", "Mul", "Dvd"}
      [] vk = "Vec3" ->
            {"Negate", "Length", "Normalize", "Add", "Sub", "Mul", "Dvd",
             "DotProduct", "CrossProduct"}
      [] vk = "Station" ->
            {"Negate", "Length", "Normalize", "Add", "Sub", "Mul", "Dvd",
             "DotProduct", "CrossProduct", "Distance"}
      [] vk = "Direction" ->
            {"Negate", "Mul", "Dvd", "DotProduct", "CrossProduct"}
      [] OTHER -> {}

\* the errors of the generic operators and casts (exceptions)
OperatorNotSupported(g, lk) == <<"threw", "OperatorNotSupported", g, lk>>
UnsupportedCombination(g, lk, rk) ==
    <<"threw", "UnsupportedCombination", g, lk, rk>>
CannotBeUsedAs(what, kind, wanted) ==
    <<"threw", "CannotBeUsedAs", what, kind, wanted>>
FeatureUsedAsFramePlacementMustBeOnFrame(name, kind, wanted) ==
    <<"threw", "FeatureUsedAsFramePlacementMustBeOnFrame", name, kind, wanted>>

\* the builder an override resolves to for its own kind lk and the kind rk
\* of the right operand, as far as the operator table determines it: the
\* operator, and whether the operands are passed on in the other order
\* (NoOp: no acceptable kind matched)
Resolve(g, lk, rk) ==
    CASE g = "Negate" /\ lk \in {"Real", "Vec3", "Direction"} ->
            [op |-> Op(lk, "Negate"), swap |-> FALSE]
      [] g \in {"Abs", "Sqrt", "Exp", "Log", "Sin", "Cos", "Asin", "Acos"}
            /\ lk = "Real" ->
            [op |-> Op("Real", g), swap |-> FALSE]
      [] g = "Length" /\ lk = "Vec3" ->
            [op |-> Op("Real", "VectorLength"), swap |-> FALSE]
      [] g = "Normalize" /\ lk \in {"Vec3", "Station"} ->
            [op |-> Op("Direction", "Normalize"), swap |-> FALSE]
      [] g = "Add" /\ lk = rk /\ lk \in {"Real", "Vec3"} ->
            [op |-> Op(lk, "Add"), swap |-> FALSE]
      [] g = "Add" /\ lk = "Station" /\ rk = "Vec3" ->
            [op |-> Op("Station", "Add"), swap |-> FALSE]
      [] g = "Add" /\ lk = "Vec3" /\ rk = "Station" ->
            [op |-> Op("Station", "Add"), swap |-> TRUE]
      [] g = "Sub" /\ lk = rk /\ lk \in {"Real", "Vec3"} ->
            [op |-> Op(lk, "Subtract"), swap |-> FALSE]
      [] g = "Sub" /\ lk = "Station" /\ rk = "Vec3" ->
            [op |-> Op("Station", "Subtract"), swap |-> FALSE]
      [] g = "Sub" /\ lk = "Station" /\ rk = "Station" ->
            [op |-> Op("Vec3", "StationDifference"), swap |-> FALSE]
      [] g = "Mul" /\ lk = "Real" /\ rk = "Real" ->
            [op |-> Op("Real", "Multiply"), swap |-> FALSE]
      [] g = "Dvd" /\ lk = "Real" /\ rk = "Real" ->
            [op |-> Op("Real", "Divide"), swap |-> FALSE]
      [] g = "Mul" /\ lk \in {"Vec3", "Station", "Direction"} /\ rk = "Real" ->
            [op |-> Op("Vec3", "ScalarMultiply"), swap |-> FALSE]
      [] g = "Dvd" /\ lk \in {"Vec3", "Station", "Direction"} /\ rk = "Real" ->
            [op |-> Op("Vec3", "ScalarDivide"), swap |-> FALSE]
      [] g = "Distance" /\ lk = "Station" /\ rk = "Station" ->
            [op |-> Op("Real", "PointDistance"), swap |-> FALSE]
      [] g = "DotProduct" /\ lk = "Vec3" /\ rk = "Vec3" ->
            [op |-> Op("Real", "DotProduct3"), swap |-> FALSE]
      [] g = "CrossProduct" /\ lk = "Vec3" /\ rk = "Vec3" ->
            [op |-> Op("Vec3", "CrossProduct"), swap |-> FALSE]
      [] OTHER -> [op |-> NoOp, swap |-> FALSE]

\* faulty variant: the exception leaves a node that was allocated before
\* the throw
FailedAfterBuilding(ns, err) ==
    [ns |-> [ns EXCEPT ![Fresh(ns)] = PlacementRep("expr", "Real")],
     id |-> 0, res |-> err]

\* the outcome of a call that builds nothing
Failed(ns, err) == [ns |-> ns, id |-> 0, res |-> err]

\* faulty variant: a base class in which every kind supports every operator
genericAlwaysResolved(ns, g, a, b) ==
    LET lk == ns[a].vk
        rk == IF b = 0 THEN NoKind ELSE ns[b].vk
        r  == Resolve(g, lk, rk)
    IN  IF r.op = NoOp THEN Failed(ns, UnsupportedCombination(g, lk, rk))
        ELSE LET e == PlacementExpr(ns, r.op,
                        IF b = 0 THEN <<a>>
                        ELSE IF r.swap THEN <<b, a>> ELSE <<a, b>>)
             IN  [ns |-> e.ns, id |-> e.id,
                  res |-> IF e.ok THEN <<"ok">> ELSE <<"abort">>]

\* a.genericG(b), b = 0 for a unary operator.  PlacementRep::genericG
\* throws; an override resolves the right operand's kind to a builder, which
\* constructs the expression node, or throws when no kind matches
generic(ns, g, a, b) ==
    LET lk == ns[a].vk
        rk == IF b = 0 THEN NoKind ELSE ns[b].vk
        r  == Resolve(g, lk, rk)
    IN  IF g \notin Overrides(lk)
        THEN Failed(ns, OperatorNotSupported(g, lk))
        ELSE IF r.op = NoOp
        THEN Failed(ns, UnsupportedCombination(g, lk, rk))
        ELSE LET e == PlacementExpr(ns, r.op,
                        IF b = 0 THEN <<a>>
                        ELSE IF r.swap THEN <<b, a>> ELSE <<a, b>>)
             IN  [ns |-> e.ns, id |-> e.id,
                  res |-> IF e.ok THEN <<"ok">> ELSE <<"abort">>]

\* FramePlacement(const Orientation&, const Station&): the composition of
\* references to the two Features
FramePlacement(ns, o, s) ==
    LET ia == Fresh(ns)
        na == [ns EXCEPT ![ia] = [FeaturePlacementRep("Orientation", o, -1)
                                     EXCEPT !.handle = <<"tmp", 1>>]]
        ib == Fresh(na)
        nb == [na EXCEPT ![ib] = [FeaturePlacementRep("Station", s, -1)
                                     EXCEPT !.handle = <<"tmp", 2>>]]
        e  == FrameExprPlacementRep(nb, ia, ib)
    IN  [ns |-> DeleteRep(DeleteRep(e.ns, ia), ib), id |-> e.id,
         res |-> <<"ok">>]

\* PlacementRep::castToFramePlacement: no kind can be used as a frame
castToFramePlacementDefault(ns, a) ==
    Failed(ns, IF ns[a].ck = "ref"
               THEN CannotBeUsedAs(getFullName(ns[a].feat),
                                   FeatureKind(ns[a].feat), "Frame")
               ELSE CannotBeUsedAs(ns[a].ck, ns[a].vk, "Frame"))

\* faulty variant: the cast without its !isIndexed() test
StationFeatureCastIgnoringIndex(ns, a) ==
    LET f == ns[a].feat
    IN  IF /\ FeatureKind(f) = "Station"
           /\ hasParentFeature(f)
           /\ FeatureKind(getParentFeature(f)) = "Frame"
        THEN FramePlacement(ns, getOrientation(getParentFeature(f)), f)
        ELSE Failed(ns, FeatureUsedAsFramePlacementMustBeOnFrame(
                           getFullName(f), FeatureKind(f), "Orientation"))

\* StationFeaturePlacementRep::castToFramePlacement
StationFeatureCastToFramePlacement(ns, a) ==
    LET f == ns[a].feat
    IN  IF /\ ns[a].idx = -1
           /\ FeatureKind(f) = "Station"
           /\ hasParentFeature(f)
           /\ FeatureKind(getParentFeature(f)) = "Frame"
        THEN FramePlacement(ns, getOrientation(getParentFeature(f)), f)
        ELSE Failed(ns, FeatureUsedAsFramePlacementMustBeOnFrame(
                           getFullName(f), FeatureKind(f), "Orientation"))

\* a.castToFramePlacement() (virtual)
castToFramePlacement(ns, a) ==
    IF ns[a].ck = "ref" /\ ns[a].vk = "Station"
    THEN StationFeatureCastToFramePlacement(ns, a)
    ELSE castToFramePlacementDefault(ns, a)

---------------------------------------------------------------------------
(* Conditional constraints (ConditionalConstraint.h)                       *)

\* the concrete UnilateralContact classes; each holds one Constraint
Contacts == {"HardStopUpper", "HardStopLower", "PointPlaneFrictionlessContact",
             "PointPlaneContact", "SpherePlaneContact"}

\* Constraint::isDisabled, disable, enable on the State st, for the
\* Constraint of the contact c
ConstraintIsDisabled(st, c) == st[c]
ConstraintDisable(st, c) == [st EXCEPT ![c] = TRUE]
ConstraintEnable(st, c) == [st EXCEPT ![c] = FALSE]

\* faulty variant: disable without the test of the current setting
disableUnconditionally(st, c) ==
    [state |-> ConstraintDisable(st, c), ret |-> TRUE]

\* X::disable(state): if (m_c.isDisabled(state)) return false;
\* m_c.disable(state); return true;
disable(st, c) ==
    IF ConstraintIsDisabled(st, c) THEN [state |-> st, ret |-> FALSE]
    ELSE [state |-> ConstraintDisable(st, c), ret |-> TRUE]

\* X::enable(state): if (!m_c.isDisabled(state)) return false;
\* m_c.enable(state); return true;
enable(st, c) ==
    IF ~ConstraintIsDisabled(st, c) THEN [state |-> st, ret |-> FALSE]
    ELSE [state |-> ConstraintEnable(st, c), ret |-> TRUE]

\* X::isEnabled(state): return !m_c.isDisabled(state);
isEnabled(st, c) == ~ConstraintIsDisabled(st, c)

\* Real numbers, as exact fractions num/den with den > 0 in lowest terms
RECURSIVE GCD(_, _)
GCD(a, b) == IF b = 0 THEN a ELSE GCD(b, a % b)
Rat(n, d) ==
    LET g == GCD(IF n < 0 THEN -n ELSE n, d)
    IN  [num |-> n \div g, den |-> d \div g]
RatLeq(a, b) == a.num * b.den <= b.num * a.den
RatLess(a, b) == a.num * b.den < b.num * a.den
RatSub(a, b) == Rat(a.num * b.den - b.num * a.den, a.den * b.den)
RatMul(a, b) == Rat(a.num * b.num, a.den * b.den)
\* a / b for a >= 0, b >= 0; NaNReal: the quotient by zero
NaNReal == [num |-> 0, den |-> 0]
RatDiv(a, b) == IF b.num = 0 THEN NaNReal ELSE Rat(a.num * b.den, a.den * b.num)

\* faulty variant: the slope taken over the capture speed
calcEffectiveCOROverCapture(minCOR, captureSpeed, minCORSpeed, impactSpeed) ==
    IF ~(RatLeq(Rat(0, 1), minCOR) /\ RatLeq(minCOR, Rat(1, 1))) THEN <<"abort">>
    ELSE IF ~(RatLeq(Rat(0, 1), captureSpeed) /\ RatLeq(captureSpeed, minCORSpeed))
    THEN <<"abort">>
    ELSE IF ~RatLeq(Rat(0, 1), impactSpeed) THEN <<"abort">>
    ELSE IF RatLeq(impactSpeed, captureSpeed) THEN <<"value", Rat(0, 1)>>
    ELSE IF RatLeq(minCORSpeed, impactSpeed) THEN <<"value", minCOR>>
    ELSE LET slope == RatDiv(RatSub(Rat(1, 1), minCOR), captureSpeed)
         IN  IF slope = NaNReal THEN <<"value", NaNReal>>
             ELSE <<"value", RatSub(Rat(1, 1), RatMul(slope, impactSpeed))>>

\* ConditionalConstraint::calcEffectiveCOR: the three asserts, the two
\* early returns, then slope = (1-minCOR) / minCORSpeed and
\* 1 - slope*impactSpeed
calcEffectiveCOR(minCOR, captureSpeed, minCORSpeed, impactSpeed) ==
    IF ~(RatLeq(Rat(0, 1), minCOR) /\ RatLeq(minCOR, Rat(1, 1))) THEN <<"abort">>
    ELSE IF ~(RatLeq(Rat(0, 1), captureSpeed) /\ RatLeq(captureSpeed, minCORSpeed))
    THEN <<"abort">>
    ELSE IF ~RatLeq(Rat(0, 1), impactSpeed) THEN <<"abort">>
    ELSE IF RatLeq(impactSpeed, captureSpeed) THEN <<"value", Rat(0, 1)>>
    ELSE IF RatLeq(minCORSpeed, impactSpeed) THEN <<"value", minCOR>>
    ELSE LET slope == RatDiv(RatSub(Rat(1, 1), minCOR), minCORSpeed)
         IN  IF slope = NaNReal THEN <<"value", NaNReal>>
             ELSE <<"value", RatSub(Rat(1, 1), RatMul(slope, impactSpeed))>>

---------------------------------------------------------------------------
(* Model building: the operations a client performs on Placement handles *)

ClientHandle(h) == <<"h", h>>
FeatureHandle(f) == <<"f", f>>

\* inputs of the constructors
ConstInputs == {<<"Real", RealValue(1)>>,
                <<"Vec3", Vec3Value(0, 1, 0)>>,
                <<"Station", Vec3Value(1, 0, 0)>>,
                <<"Direction", Vec3Value(2, 0, 0)>>,
                <<"Orientation", Mat33Value("I")>>}
RefInputs == {<<"Real", "Z", -1>>, <<"Station", "S", -1>>}
OpInputs == {Op("Real", "Negate"), Op("Station", "Add")}
SlotInputs == {<<"S", 0>>}
OwnerInputs == {<<"Z", 0>>}
\* the handle through which the client assigns slots and owners
SlotHandles == {"h1"}

\* operand lists: one or two client handles, in either order, repeats allowed
OperandLists == {<<a>> : a \in Handles} \cup
                {<<a, b>> : a \in Handles, b \in Handles}

Idle == status = "ok" /\ stack = <<>>

\* PlacementRep objects the client can still allocate
Room(ns) == MaxLive - Cardinality(Live(ns))

Did(op, n, res) == [op |-> op, n |-> n, res |-> res]

UnchangedRealize == UNCHANGED <<stack, done, wrote, reads>>
UnchangedTree == UNCHANGED <<featPl, cloned, repairs, disabled>>

\* Placement h(new XConstantPlacementRep(v))
NewConst(h, in) ==
    /\ Idle
    /\ handles[h] = 0
    /\ Room(nodes) >= 1
    /\ LET id == Fresh(nodes)
       IN  /\ nodes' = [nodes EXCEPT ![id] =
                          [ConstantPlacementRep(in[1], in[2]) EXCEPT
                              !.handle = ClientHandle(h)]]
           /\ handles' = [handles EXCEPT ![h] = id]
           /\ last' = Did("build", 0, <<"ok">>)
    /\ UNCHANGED <<slots, status>>
    /\ UnchangedRealize /\ UnchangedTree

\* Placement h(new XFeaturePlacementRep(f, index))
NewRef(h, in) ==
    /\ Idle
    /\ handles[h] = 0
    /\ Room(nodes) >= 1
    /\ LET id == Fresh(nodes)
       IN  /\ nodes' = [nodes EXCEPT ![id] =
                          [FeaturePlacementRep(in[1], in[2], in[3]) EXCEPT
                              !.handle = ClientHandle(h)]]
           /\ handles' = [handles EXCEPT ![h] = id]
           /\ last' = Did("build", 0, <<"ok">>)
    /\ UNCHANGED <<slots, status>>
    /\ UnchangedRealize /\ UnchangedTree

\* Placement::setRep on the client handle h: h gives up (deletes) the node
\* it held, if any, and holds the node id, whose myHandle becomes h
Rebind(ns, h, id) ==
    LET freed == IF handles[h] = 0 THEN ns ELSE DeleteRep(ns, handles[h])
    IN  [freed EXCEPT ![id].handle = ClientHandle(h)]

RECURSIVE SumSizes(_, _, _)
SumSizes(ns, a, i) ==
    IF i > Len(a) THEN 0 ELSE TreeSize(ns, a[i]) + SumSizes(ns, a, i + 1)

\* Placement h(new XExprPlacementRep(XOps(kind), operands)); a failed
\* assert(f.checkArgs(args)) ends the process before h is bound
NewExpr(h, op, hs) ==
    /\ Idle
    /\ \A i \in 1..Len(hs) : handles[hs[i]] # 0
    /\ LET a == [i \in 1..Len(hs) |-> handles[hs[i]]]
       IN  /\ 1 + SumSizes(nodes, a, 1) <= Room(nodes)
           /\ LET r == PlacementExpr(nodes, op, a)
              IN  IF r.ok
                  THEN /\ nodes' = Rebind(r.ns, h, r.id)
                       /\ handles' = [handles EXCEPT ![h] = r.id]
                       /\ status' = "ok"
                       /\ last' = Did("build", 0, <<"ok">>)
                  ELSE /\ UNCHANGED <<nodes, handles>>
                       /\ status' = "aborted"
                       /\ last' = Did("NewExpr", 0, <<"abort">>)
    /\ UNCHANGED slots
    /\ UnchangedRealize /\ UnchangedTree

\* FramePlacement h(o, s): the arguments are an OrientationPlacement and a
\* StationPlacement (by their static types)
NewFrame(h, ho, hs) ==
    /\ Idle
    /\ handles[ho] # 0 /\ nodes[handles[ho]].vk = "Orientation"
    /\ handles[hs] # 0 /\ nodes[handles[hs]].vk = "Station"
    /\ 1 + TreeSize(nodes, handles[ho]) + TreeSize(nodes, handles[hs])
          <= Room(nodes)
    /\ LET r == FrameExprPlacementRep(nodes, handles[ho], handles[hs])
       IN  /\ nodes' = Rebind(r.ns, h, r.id)
           /\ handles' = [handles EXCEPT ![h] = r.id]
           /\ last' = Did("build", 0, <<"ok">>)
    /\ UNCHANGED <<slots, status>>
    /\ UnchangedRealize /\ UnchangedTree

\* Placement dst(src): the copy constructor of the handle
CopyHandle(dst, src) ==
    /\ Idle
    /\ handles[dst] = 0
    /\ handles[src] # 0
    /\ TreeSize(nodes, handles[src]) <= Room(nodes)
    /\ LET r == PlacementCopy(nodes, handles[src], ClientHandle(dst))
       IN  /\ nodes' = r.ns
           /\ handles' = [handles EXCEPT ![dst] = r.id]
           /\ last' = Did("build", 0, <<"ok">>)
    /\ UNCHANGED <<slots, status>>
    /\ UnchangedRealize /\ UnchangedTree

\* the handle h goes out of scope
Destroy(h) ==
    /\ Idle
    /\ handles[h] # 0
    /\ nodes' = DeleteRep(nodes, handles[h])
    /\ handles' = [handles EXCEPT ![h] = 0]
    /\ last' = Did("build", 0, <<"ok">>)
    /\ UNCHANGED <<slots, status>>
    /\ UnchangedRealize /\ UnchangedTree

\* PlacementRep::assignValueSlot on the node of handle h
AssignValueSlot(h, s) ==
    /\ Idle
    /\ handles[h] # 0
    /\ nodes' = [nodes EXCEPT ![handles[h]].slot = s]
    /\ last' = Did("build", 0, <<"ok">>)
    /\ UNCHANGED <<handles, slots, status>>
    /\ UnchangedRealize /\ UnchangedTree

\* PlacementRep::setOwner on the node of handle h
SetOwner(h, in) ==
    /\ Idle
    /\ handles[h] # 0
    /\ nodes' = [nodes EXCEPT ![handles[h]].owner = in[1],
                              ![handles[h]].indexInOwner = in[2]]
    /\ last' = Did("build", 0, <<"ok">>)
    /\ UNCHANGED <<handles, slots, status>>
    /\ UnchangedRealize /\ UnchangedTree

NextBuild ==
    \/ \E h \in Handles, in \in ConstInputs : NewConst(h, in)
    \/ \E h \in Handles, in \in RefInputs : NewRef(h, in)
    \/ \E h \in Handles, op \in OpInputs, hs \in OperandLists : NewExpr(h, op, hs)
    \/ \E h \in Handles, ho \in Handles, hs \in Handles : NewFrame(h, ho, hs)
    \/ \E dst \in Handles, src \in Handles : CopyHandle(dst, src)
    \/ \E h \in Handles : Destroy(h)
    \/ \E h \in SlotHandles, s \in SlotInputs : AssignValueSlot(h, s)
    \/ \E h \in SlotHandles, in \in OwnerInputs : SetOwner(h, in)

Init ==
    /\ nodes = [i \in NodeIds |-> NoNode]
    /\ handles = [h \in Handles |-> 0]
    /\ featPl = [f \in Features |-> 0]
    /\ slots = [s \in SlotIds |-> NewSlot]
    /\ stack = <<>>
    /\ done = {}
    /\ wrote = {}
    /\ reads = {}
    /\ status = "ok"
    /\ last = Did("init", 0, <<"ok">>)
    /\ cloned = FALSE
    /\ repairs = 0
    /\ disabled = [c \in Contacts |-> FALSE]

SpecBuild == Init /\ [][NextBuild]_vars

---------------------------------------------------------------------------
(* Owner links: setOwner takes any int as the index *)

OwnerConstInputs == {<<"Real", RealValue(1)>>, <<"Station", Vec3Value(1, 0, 0)>>}
OwnerIndexInputs == OwnerInputs \cup {<<"Z", -1>>}

NextOwner ==
    \/ \E h \in Handles, in \in OwnerConstInputs : NewConst(h, in)
    \/ \E h \in Handles, in \in RefInputs : NewRef(h, in)
    \/ \E h \in Handles, op \in OpInputs, hs \in OperandLists : NewExpr(h, op, hs)
    \/ \E dst \in Handles, src \in Handles : CopyHandle(dst, src)
    \/ \E h \in Handles : Destroy(h)
    \/ \E h \in SlotHandles, s \in SlotInputs : AssignValueSlot(h, s)
    \/ \E h \in SlotHandles, in \in OwnerIndexInputs : SetOwner(h, in)

SpecOwner == Init /\ [][NextOwner]_vars

---------------------------------------------------------------------------
(* Generic arithmetic and casts on the client's placements *)

\* references whose kind is the kind of their Feature, a station reference
\* to an element (index 0), to a Feature that is not a station (V), to a
\* station without a parent (P) and to a station on a Real Feature (Q), and
\* a 3-vector reference to a station ("Station to Vec3", line 425)
DispatchRefs == {<<"Real", "Z", -1>>, <<"Frame", "R", -1>>,
                 <<"Station", "S", -1>>, <<"Station", "S", 0>>,
                 <<"Station", "V", -1>>, <<"Station", "P", -1>>,
                 <<"Station", "Q", -1>>, <<"Vec3", "S", -1>>}
UnaryInputs == {"Negate", "Normalize"}
BinaryInputs == {"Add", "Sub", "Angle"}

\* the caller receives the outcome r of a call that returns a Placement: h
\* takes the node built; a failed assert ends the process; an exception
\* reaches the caller, who goes on
Outcome(h, name, r) ==
    /\ r.id # 0 => TreeSize(r.ns, r.id) <= Room(nodes)
    /\ IF r.res = <<"ok">>
       THEN /\ nodes' = Rebind(r.ns, h, r.id)
            /\ handles' = [handles EXCEPT ![h] = r.id]
            /\ status' = "ok"
       ELSE /\ nodes' = r.ns
            /\ UNCHANGED handles
            /\ status' = IF r.res = <<"abort">> THEN "aborted" ELSE "ok"
    /\ last' = Did(name, r.id, r.res)
    /\ UNCHANGED slots
    /\ UnchangedRealize /\ UnchangedTree

\* Placement h = a.genericG()
GenericUnary(h, g, a) ==
    /\ Idle
    /\ handles[a] # 0
    /\ \E r \in {generic(nodes, g, handles[a], 0)} :
          Outcome(h, "generic" \o g, r)

\* Placement h = a.genericG(b)
GenericBinary(h, g, a, b) ==
    /\ Idle
    /\ handles[a] # 0 /\ handles[b] # 0
    /\ \E r \in {generic(nodes, g, handles[a], handles[b])} :
          Outcome(h, "generic" \o g, r)

\* FramePlacement h = a.castToFramePlacement()
CastToFrame(h, a) ==
    /\ Idle
    /\ handles[a] # 0
    /\ \E r \in {castToFramePlacement(nodes, handles[a])} :
          Outcome(h, "castToFramePlacement", r)

\* c = h.getRep().clone(); the texts of the original before, of the clone,
\* and of the original after are taken; delete c
CloneText(h) ==
    /\ Idle
    /\ handles[h] # 0
    /\ \E c \in {clone(nodes, handles[h])} :
          /\ nodes' = DeleteRep(c.ns, c.id)
          /\ last' = Did("clone", handles[h],
                         <<"text", toString(nodes, handles[h]),
                           toString(c.ns, c.id),
                           toString(c.ns, handles[h])>>)
    /\ UNCHANGED <<handles, slots, status>>
    /\ UnchangedRealize /\ UnchangedTree

\* the handle that receives the results
ResultHandles == {"h1"}

NextDispatch ==
    \/ \E h \in Handles, in \in ConstInputs : NewConst(h, in)
    \/ \E h \in Handles, in \in DispatchRefs : NewRef(h, in)
    \/ \E h \in ResultHandles, g \in UnaryInputs, a \in Handles :
          GenericUnary(h, g, a)
    \/ \E h \in ResultHandles, g \in BinaryInputs, a \in Handles,
          b \in Handles : GenericBinary(h, g, a, b)
    \/ \E h \in ResultHandles, a \in Handles : CastToFrame(h, a)
    \/ \E h \in Handles : CloneText(h)

SpecDispatch == Init /\ [][NextDispatch]_vars

---------------------------------------------------------------------------
(* Queries on the client's constants and references *)

\* the roots the client asks about: the root of the tree and a Feature
\* outside it
RootInputs == {"R", "Z"}

\* h.getRep().findAncestorFeature(root)
FindAncestor(h, root) ==
    /\ Idle
    /\ handles[h] # 0
    /\ \E r \in {findAncestorFeature(nodes, handles[h], root)} :
          /\ last' = Did("findAncestorFeature", handles[h], r)
          /\ status' = IF r = <<"abort">> THEN "aborted" ELSE "ok"
    /\ UNCHANGED <<nodes, handles, slots>>
    /\ UnchangedRealize /\ UnchangedTree

NextQuery ==
    \/ \E h \in Handles, in \in ConstInputs : NewConst(h, in)
    \/ \E h \in Handles, in \in DispatchRefs : NewRef(h, in)
    \/ \E h \in Handles : Destroy(h)
    \/ \E h \in Handles, root \in RootInputs : FindAncestor(h, root)

SpecQuery == Init /\ [][NextQuery]_vars

---------------------------------------------------------------------------
(* Calls on the unilateral contacts *)

\* speeds are multiples of 1/2 up to MaxSpeed/2
MaxSpeed == 3
Speeds == {Rat(i, 2) : i \in 0..MaxSpeed}
\* impact speeds: the speeds and one negative value
ImpactSpeeds == Speeds \cup {Rat(-1, 2)}
\* minimum coefficients of restitution: 0, 1/2, 1 and the inadmissible 3/2
MinCORs == {Rat(i, 2) : i \in 0..3}

\* c.disable(state)
Disable(c) ==
    /\ Idle
    /\ \E r \in {disable(disabled, c)} :
          /\ disabled' = r.state
          /\ last' = Did("disable", 0, <<c, r.ret>>)
    /\ UNCHANGED <<nodes, handles, featPl, slots, status, cloned, repairs>>
    /\ UnchangedRealize

\* c.enable(state)
Enable(c) ==
    /\ Idle
    /\ \E r \in {enable(disabled, c)} :
          /\ disabled' = r.state
          /\ last' = Did("enable", 0, <<c, r.ret>>)
    /\ UNCHANGED <<nodes, handles, featPl, slots, status, cloned, repairs>>
    /\ UnchangedRealize

\* X::calcEffectiveCOR(state, defaultCaptureSpeed, defaultMinCORSpeed,
\* impactSpeed) of a contact built with minCOR: returns
\* ConditionalConstraint::calcEffectiveCOR(m_minCOR, ...)
CalcEffectiveCOR(minCOR, captureSpeed, minCORSpeed, impactSpeed) ==
    /\ Idle
    /\ \E r \in {calcEffectiveCOR(minCOR, captureSpeed, minCORSpeed, impactSpeed)} :
          /\ last' = Did("calcEffectiveCOR", 0,
                         <<minCOR, captureSpeed, minCORSpeed, impactSpeed, r>>)
          /\ status' = IF r = <<"abort">> THEN "aborted" ELSE "ok"
    /\ UNCHANGED <<nodes, handles, featPl, slots, cloned, repairs, disabled>>
    /\ UnchangedRealize

NextContact ==
    \/ \E c \in Contacts : Disable(c)
    \/ \E c \in Contacts : Enable(c)

SpecContact == Init /\ [][NextContact]_vars

\* the static function is called with every combination of the inputs
NextCOR ==
    \E m \in MinCORs, cap \in Speeds, s \in Speeds, v \in ImpactSpeeds :
       CalcEffectiveCOR(m, cap, s, v)

SpecCOR == Init /\ [][NextCOR]_vars

---------------------------------------------------------------------------
(* Placing: the client gives a Feature of the tree its placement *)

\* Placement h(new XPlacementRep(...)); h.updRep().assignValueSlot(s)
\* (s = NoSlot: no slot is assigned)
Temp(ns, nd, h, s) ==
    LET id == Fresh(ns)
    IN  [ns |-> [ns EXCEPT ![id] = [nd EXCEPT !.handle = ClientHandle(h),
                                              !.slot = s]],
         id |-> id]

\* the Feature f takes a copy of the node src as its placement: the copy is
\* owned by f (setOwner) and is assigned the slot s; the client's original
\* goes out of scope
place(ns, f, src, s) ==
    LET c     == cloneUnownedWithNewHandle(ns, src, FeatureHandle(f))
        owned == [c.ns EXCEPT ![c.id].owner = f,
                              ![c.id].indexInOwner = 0,
                              ![c.id].slot = s]
    IN  [ns |-> DeleteRep(owned, src), id |-> c.id]

\* the placement a Feature is given: a constant, or an expression or frame
\* over a constant and a reference to another Feature
Literal(f) ==
    CASE f = "Z" -> ConstantPlacementRep("Real", RealValue(1))
      [] f = "V" -> ConstantPlacementRep("Vec3", Vec3Value(0, 1, 0))
      [] f = "S" -> ConstantPlacementRep("Station", Vec3Value(1, 0, 0))
      [] f = "R" -> ConstantPlacementRep("Orientation", Mat33Value("I"))

\* V := V0 * Z,   S := S0 + V,   R := Frame(I, S)
Referenced(f) ==
    CASE f = "V" -> FeaturePlacementRep("Real", "Z", -1)
      [] f = "S" -> FeaturePlacementRep("Vec3", "V", -1)
      [] f = "R" -> FeaturePlacementRep("Station", "S", -1)

OpOf(f) ==
    CASE f = "V" -> Op("Vec3", "ScalarMultiply")
      [] f = "S" -> Op("Station", "Add")

\* f := the literal of f
PlaceConstant(f) ==
    /\ Idle
    /\ ~cloned
    /\ f \in {"Z", "V", "S"}
    /\ featPl[f] = 0
    /\ \E t \in {Temp(nodes, Literal(f), "h1", NoSlot)} :
       \E p \in {place(t.ns, f, t.id, NoSlot)} :
          /\ nodes' = p.ns
          /\ featPl' = [featPl EXCEPT ![f] = p.id]
    /\ last' = Did("place", 0, <<"ok">>)
    /\ UNCHANGED <<handles, slots, status, cloned, repairs, disabled>>
    /\ UnchangedRealize

\* the order in which the client passes the two operands
OperandOrders == {<<1, 2>>, <<2, 1>>}

\* f := Op(literal, reference) with the operands passed in the order ord,
\* the slot <<f, 1>> assigned to the reference and the slot <<f, 0>> to the
\* placement; a failed assert(f.checkArgs(args)) ends the process
PlaceExpr(f, ord) ==
    /\ Idle
    /\ ~cloned
    /\ f \in {"V", "S"}
    /\ featPl[f] = 0
    /\ featPl[Referenced(f).feat] # 0
    /\ \E a \in {Temp(nodes, Literal(f), "h1", NoSlot)} :
       \E b \in {Temp(a.ns, Referenced(f), "h2", <<f, 1>>)} :
       \E e \in {PlacementExpr(b.ns, OpOf(f),
                                [i \in 1..2 |-> <<a.id, b.id>>[ord[i]]])} :
          IF e.ok
          THEN \E d \in {DeleteRep(DeleteRep(e.ns, a.id), b.id)} :
               \E p \in {place(d, f, e.id, <<f, 0>>)} :
                  /\ nodes' = p.ns
                  /\ featPl' = [featPl EXCEPT ![f] = p.id]
                  /\ status' = "ok"
                  /\ last' = Did("place", 0, <<"ok">>)
          ELSE /\ status' = "aborted"
               /\ last' = Did("place", 0, <<"abort">>)
               /\ UNCHANGED <<nodes, featPl>>
    /\ UNCHANGED <<handles, slots, cloned, repairs, disabled>>
    /\ UnchangedRealize

\* R := FramePlacement(I, reference to S)
PlaceFrame ==
    /\ Idle
    /\ ~cloned
    /\ featPl["R"] = 0
    /\ featPl["S"] # 0
    /\ \E a \in {Temp(nodes, Literal("R"), "h1", NoSlot)} :
       \E b \in {Temp(a.ns, Referenced("R"), "h2", <<"R", 1>>)} :
       \E e \in {FrameExprPlacementRep(b.ns, a.id, b.id)} :
       \E d \in {DeleteRep(DeleteRep(e.ns, a.id), b.id)} :
       \E p \in {place(d, "R", e.id, <<"R", 0>>)} :
          /\ nodes' = p.ns
          /\ featPl' = [featPl EXCEPT !["R"] = p.id]
    /\ last' = Did("place", 0, <<"ok">>)
    /\ UNCHANGED <<handles, slots, status, cloned, repairs, disabled>>
    /\ UnchangedRealize

---------------------------------------------------------------------------
(* realize(): the call stack of one realize call, one frame per node.     *)
(* pc counts the dependencies whose realize the frame has called so far.  *)

Top == stack[Len(stack)]
Running == status = "ok" /\ stack # <<>>

\* the dependencies of a node, in the order realize() visits them: the
\* operands of an expression, the orientation and origin of a frame, the
\* placement of the Feature a reference names
Deps(ns, fp, n) ==
    IF ns[n].ck = "ref"
    THEN IF ns[n].feat \in Features /\ fp[ns[n].feat] # 0
         THEN <<fp[ns[n].feat]>> ELSE <<>>
    ELSE ns[n].args

\* the running frame calls dep.realize()
Call(dep) ==
    stack' = Append([stack EXCEPT ![Len(stack)].pc = @ + 1],
                    [n |-> dep, pc |-> 0])

\* the running frame's realize() returns
Return ==
    /\ stack' = SubSeq(stack, 1, Len(stack) - 1)
    /\ done' = done \cup {Top.n}
    /\ status' = "ok"
    /\ last' = Did("realize", Top.n, <<"ok">>)

\* a failed assert inside the running frame
Abort ==
    /\ status' = "aborted"
    /\ last' = Did("realize", Top.n, <<"abort">>)
    /\ UNCHANGED <<stack, done, wrote, reads, slots>>

\* the record of one dependency value read: by reads dep's getValue();
\* literal: dep answers with its stored literal; fresh: dep set its slot
\* earlier in this call
ReadOf(by, dep) ==
    [by |-> by, dep |-> dep,
     literal |-> OverridesGetValue(nodes[dep]),
     fresh |-> dep \in wrote]

\* the client calls realize() on the placement of the Feature f
RealizeCall(f) ==
    /\ Idle
    /\ featPl[f] # 0
    /\ stack' = <<[n |-> featPl[f], pc |-> 0]>>
    /\ done' = {}
    /\ wrote' = {}
    /\ reads' = {}
    /\ last' = Did("call", featPl[f], <<"ok">>)
    /\ UNCHANGED <<nodes, handles, slots, status>>
    /\ UnchangedTree

\* XConstantPlacementRep::realize() { }
ConstRealize ==
    /\ Running
    /\ nodes[Top.n].ck = "const"
    /\ Return
    /\ UNCHANGED <<nodes, handles, slots, wrote, reads>>
    /\ UnchangedTree

\* XFeaturePlacementRep::realize, first half: assert(hasValueSlot());
\* refRealize(), which realizes the placement of the referenced Feature
RefRealize ==
    /\ Running
    /\ nodes[Top.n].ck = "ref"
    /\ Top.pc = 0
    /\ IF hasValueSlot(nodes[Top.n]) /\ Deps(nodes, featPl, Top.n) # <<>>
       THEN /\ Call(Deps(nodes, featPl, Top.n)[1])
            /\ UNCHANGED <<done, wrote, reads, slots, status, last>>
       ELSE Abort
    /\ UNCHANGED <<nodes, handles>>
    /\ UnchangedTree

\* XFeaturePlacementRep::realize, second half:
\* updValueSlot().set(getReferencedValue()), the value of the referenced
\* Feature's placement (its element idx when the reference is indexed)
RefStore ==
    /\ Running
    /\ nodes[Top.n].ck = "ref"
    /\ Top.pc = 1
    /\ LET dep == Deps(nodes, featPl, Top.n)[1]
       IN  \E res \in getValue(nodes, slots, dep) :
              IF res = <<"abort">> THEN Abort
              ELSE /\ slots' = setValue(slots, nodes[Top.n].slot,
                                 IF nodes[Top.n].idx >= 0
                                 THEN Element(res[2], nodes[Top.n].idx)
                                 ELSE res[2])
                   /\ wrote' = wrote \cup {Top.n}
                   /\ reads' = reads \cup {ReadOf(Top.n, dep)}
                   /\ Return
    /\ UNCHANGED <<nodes, handles>>
    /\ UnchangedTree

\* PlacementExpr::exprRealize: realize the operands in order
ExprRealize ==
    /\ Running
    /\ nodes[Top.n].ck = "expr"
    /\ Top.pc < Len(nodes[Top.n].args)
    /\ Call(nodes[Top.n].args[Top.pc + 1])
    /\ UNCHANGED <<nodes, handles, slots, done, wrote, reads, status, last>>
    /\ UnchangedTree

\* Real and Vec3 expressions: updValueSlot().set(XOps::apply(args)), where
\* apply is { assert(false); ... }
ExprApply ==
    /\ Running
    /\ nodes[Top.n].ck = "expr"
    /\ nodes[Top.n].vk \in {"Real", "Vec3"}
    /\ Top.pc = Len(nodes[Top.n].args)
    /\ Abort
    /\ UNCHANGED <<nodes, handles>>
    /\ UnchangedTree

\* Station, Direction and Orientation expressions:
\* realize() {exprRealize();} and nothing more
ExprReturn ==
    /\ Running
    /\ nodes[Top.n].ck = "expr"
    /\ nodes[Top.n].vk \in {"Station", "Direction", "Orientation"}
    /\ Top.pc = Len(nodes[Top.n].args)
    /\ Return
    /\ UNCHANGED <<nodes, handles, slots, wrote, reads>>
    /\ UnchangedTree

\* a faulty variant: the origin is realized before the orientation
FrameRealizeOriginFirst ==
    /\ Running
    /\ nodes[Top.n].ck = "frame"
    /\ Top.pc < 2
    /\ IF hasValueSlot(nodes[Top.n])
       THEN /\ Call(nodes[Top.n].args[2 - Top.pc])
            /\ UNCHANGED <<done, wrote, reads, slots, status, last>>
       ELSE Abort
    /\ UNCHANGED <<nodes, handles>>
    /\ UnchangedTree

\* FrameExprPlacementRep::realize: assert(hasValueSlot());
\* orientation.getRep().realize(); then origin.getRep().realize()
FrameRealize ==
    /\ Running
    /\ nodes[Top.n].ck = "frame"
    /\ Top.pc < 2
    /\ IF hasValueSlot(nodes[Top.n])
       THEN /\ Call(nodes[Top.n].args[Top.pc + 1])
            /\ UNCHANGED <<done, wrote, reads, slots, status, last>>
       ELSE Abort
    /\ UNCHANGED <<nodes, handles>>
    /\ UnchangedTree

\* FrameExprPlacementRep::realize, the rest: read orientation and origin
\* with getValue() and set the slot to Mat34(ori(0), ori(1), ori(2), origin)
FrameStore ==
    /\ Running
    /\ nodes[Top.n].ck = "frame"
    /\ Top.pc = 2
    /\ LET o == nodes[Top.n].args[1]
           s == nodes[Top.n].args[2]
       IN  \E ro \in getValue(nodes, slots, o), rs \in getValue(nodes, slots, s) :
              IF ro = <<"abort">> \/ rs = <<"abort">> THEN Abort
              ELSE /\ slots' = setValue(slots, nodes[Top.n].slot,
                                 Mat34Value(Column(ro[2], 0), Column(ro[2], 1),
                                            Column(ro[2], 2), rs[2]))
                   /\ wrote' = wrote \cup {Top.n}
                   /\ reads' = reads \cup {ReadOf(Top.n, o), ReadOf(Top.n, s)}
                   /\ Return
    /\ UNCHANGED <<nodes, handles>>
    /\ UnchangedTree

\* the client calls getValue() on the placement of the Feature f
GetValue(f) ==
    /\ Idle
    /\ featPl[f] # 0
    /\ \E res \in getValue(nodes, slots, featPl[f]) :
          /\ last' = Did("getValue", featPl[f], res)
          /\ status' = IF res = <<"abort">> THEN "aborted" ELSE "ok"
    /\ UNCHANGED <<nodes, handles, slots>>
    /\ UnchangedRealize /\ UnchangedTree

---------------------------------------------------------------------------
(* Realizing placements whose slots the client may not have assigned *)

\* the slot the client assigns to a node: slot i of the Feature f, or none
SlotChoices(f, i) == {NoSlot, <<f, i>>}

\* f := Op(literal, reference); the placement is assigned the slot own and
\* the reference the slot inner
PlaceExprWith(f, own, inner) ==
    /\ Idle
    /\ f \in {"V", "S"}
    /\ featPl[f] = 0
    /\ featPl[Referenced(f).feat] # 0
    /\ \E a \in {Temp(nodes, Literal(f), "h1", NoSlot)} :
       \E b \in {Temp(a.ns, Referenced(f), "h2", inner)} :
       \E e \in {PlacementExpr(b.ns, OpOf(f), <<a.id, b.id>>)} :
          /\ e.ok
          /\ \E d \in {DeleteRep(DeleteRep(e.ns, a.id), b.id)} :
             \E p \in {place(d, f, e.id, own)} :
                /\ nodes' = p.ns
                /\ featPl' = [featPl EXCEPT ![f] = p.id]
    /\ last' = Did("place", 0, <<"ok">>)
    /\ UNCHANGED <<handles, slots, status, cloned, repairs, disabled>>
    /\ UnchangedRealize

\* R := FramePlacement(I, reference to S); the frame is assigned the slot
\* own and the reference the slot inner
PlaceFrameWith(own, inner) ==
    /\ Idle
    /\ featPl["R"] = 0
    /\ featPl["S"] # 0
    /\ \E a \in {Temp(nodes, Literal("R"), "h1", NoSlot)} :
       \E b \in {Temp(a.ns, Referenced("R"), "h2", inner)} :
       \E e \in {FrameExprPlacementRep(b.ns, a.id, b.id)} :
       \E d \in {DeleteRep(DeleteRep(e.ns, a.id), b.id)} :
       \E p \in {place(d, "R", e.id, own)} :
          /\ nodes' = p.ns
          /\ featPl' = [featPl EXCEPT !["R"] = p.id]
    /\ last' = Did("place", 0, <<"ok">>)
    /\ UNCHANGED <<handles, slots, status, cloned, repairs, disabled>>
    /\ UnchangedRealize

NextRealize ==
    \/ \E f \in Features : PlaceConstant(f)
    \/ \E f \in Features :
          \E own \in SlotChoices(f, 0), inner \in SlotChoices(f, 1) :
             PlaceExprWith(f, own, inner)
    \/ \E own \in SlotChoices("R", 0), inner \in SlotChoices("R", 1) :
          PlaceFrameWith(own, inner)
    \/ \E f \in Features : RealizeCall(f)
    \/ ConstRealize
    \/ RefRealize
    \/ RefStore
    \/ ExprRealize
    \/ ExprApply
    \/ ExprReturn
    \/ FrameRealize
    \/ FrameStore

SpecRealize == Init /\ [][NextRealize]_vars

---------------------------------------------------------------------------
(* Cloning the Feature tree under "R" and repairing the clone *)

\* most repair passes applied to one clone
MaxRepairs == 2

\* every node held by the placements of the Features in fs
NodesOf(ns, fp, fs) ==
    UNION {Subtree(ns, fp[f]) : f \in {g \in fs : fp[g] # 0}}

\* the Feature References held by those nodes
RefsOf(ns, fp, fs) == {n \in NodesOf(ns, fp, fs) : ns[n].ck = "ref"}

\* the copy of one Feature of the tree: its counterpart takes a copy of
\* its placement, references and slot pointers verbatim
cloneFeature(w, f) ==
    IF w.featPl[f] = 0 THEN w
    ELSE LET f2 == findCorrespondingFeature("R", f, "R2")
             c  == cloneUnownedWithNewHandle(w.nodes, w.featPl[f],
                                             FeatureHandle(f2))
         IN  [nodes |-> [c.ns EXCEPT
                           ![c.id].owner = f2,
                           ![c.id].indexInOwner =
                               w.nodes[w.featPl[f]].indexInOwner],
              featPl |-> [w.featPl EXCEPT ![f2] = c.id]]

\* faulty variant: a reference already under newRoot is looked up under
\* oldRoot again
refRepairStrict(nd, oldRoot, newRoot) ==
    LET c == findCorrespondingFeature(oldRoot, nd.feat, newRoot)
    IN  IF c = NoFeature
        THEN [nd |-> nd, ok |-> FALSE]
        ELSE [nd |-> [nd EXCEPT !.feat = c], ok |-> TRUE]

\* faulty variant: a reference without a counterpart is silently kept
refRepairSilent(nd, oldRoot, newRoot) ==
    LET c == findCorrespondingFeature(oldRoot, nd.feat, newRoot)
    IN  IF c = NoFeature
        THEN [nd |-> nd, ok |-> TRUE]
        ELSE [nd |-> [nd EXCEPT !.feat = c], ok |-> TRUE]

\* FeatureReference::refRepairFeatureReferences: the reference is moved to
\* the Feature's counterpart under newRoot; a reference already under
\* newRoot is repaired; ok = FALSE: there is no counterpart
refRepairFeatureReferences(nd, oldRoot, newRoot) ==
    IF isFeatureInFeatureTree(newRoot, nd.feat)
    THEN [nd |-> nd, ok |-> TRUE]
    ELSE LET c == findCorrespondingFeature(oldRoot, nd.feat, newRoot)
         IN  IF c = NoFeature
             THEN [nd |-> nd, ok |-> FALSE]
             ELSE [nd |-> [nd EXCEPT !.feat = c], ok |-> TRUE]

\* faulty variant: the slot pointer is left as cloned
repairValueReferenceNone(nd, oldRoot, newRoot) == nd

\* PlacementRep::repairValueReference: a slot pointer into the old tree is
\* moved to the corresponding slot of the new tree
repairValueReference(nd, oldRoot, newRoot) ==
    IF ~hasValueSlot(nd) \/ isFeatureInFeatureTree(newRoot, SlotOwner(nd.slot))
    THEN nd
    ELSE [nd EXCEPT
            !.slot = findCorrespondingPlacementValue(oldRoot, nd.slot, newRoot)]

RECURSIVE repairFeatureReferences(_, _, _, _)

\* PlacementExpr::exprRepairFeatureReferences: repair every operand
exprRepairFeatureReferences(ns, args, oldRoot, newRoot) ==
    UNION {repairFeatureReferences(ns, args[i], oldRoot, newRoot) :
              i \in 1..Len(args)}

\* faulty variant: the reference classes do not override the default { }
repairFeatureReferencesDefault(ns, n, oldRoot, newRoot) ==
    CASE ns[n].ck \in {"expr", "frame"} ->
            exprRepairFeatureReferences(ns, ns[n].args, oldRoot, newRoot)
      [] OTHER -> {}

\* PlacementRep::repairFeatureReferences (virtual): references call
\* refRepairFeatureReferences, expressions and frames repair their operand
\* placements, every other node has the default { }.  The result is the
\* set of nodes rewritten, each as [n, nd, ok].
repairFeatureReferences(ns, n, oldRoot, newRoot) ==
    CASE ns[n].ck = "ref" ->
            LET r == refRepairFeatureReferences(ns[n], oldRoot, newRoot)
            IN  {[n |-> n, nd |-> r.nd, ok |-> r.ok]}
      [] ns[n].ck \in {"expr", "frame"} ->
            exprRepairFeatureReferences(ns, ns[n].args, oldRoot, newRoot)
      [] OTHER -> {}

\* the repair pass of the cloner over the placements of the new tree:
\* repairFeatureReferences on each placement, repairValueReference on
\* every node
repairPlacements(ns, fp, oldRoot, newRoot) ==
    LET roots == {fp[f] : f \in {g \in NewTree : fp[g] # 0}}
        done1 == UNION {repairFeatureReferences(ns, n, oldRoot, newRoot) :
                           n \in roots}
        after(i) == IF \E c \in done1 : c.n = i
                    THEN (CHOOSE c \in done1 : c.n = i).nd
                    ELSE ns[i]
        mine  == NodesOf(ns, fp, NewTree)
    IN  [ns |-> [i \in NodeIds |->
                    IF i \in mine
                    THEN repairValueReference(after(i), oldRoot, newRoot)
                    ELSE ns[i]],
         ok |-> \A c \in done1 : c.ok]

\* the cloner copies the Feature tree under "R" into the tree under "R2"
CloneTree ==
    /\ Idle
    /\ ~cloned
    /\ \E w1 \in {cloneFeature([nodes |-> nodes, featPl |-> featPl], "R")} :
       \E w2 \in {cloneFeature(w1, "S")} :
       \E w3 \in {cloneFeature(w2, "V")} :
          /\ nodes' = w3.nodes
          /\ featPl' = w3.featPl
    /\ slots' = [s \in SlotIds |->
                   IF SlotOwner(s) \in NewTree
                   THEN slots[<<CHOOSE f \in OldTree :
                                   findCorrespondingFeature("R", f, "R2")
                                       = SlotOwner(s),
                                s[2]>>]
                   ELSE slots[s]]
    /\ cloned' = TRUE
    /\ last' = Did("clone", 0, <<"ok">>)
    /\ UNCHANGED <<handles, status, repairs, disabled>>
    /\ UnchangedRealize

\* the cloner runs the repair pass with (old root, new root) = ("R", "R2")
RepairPass ==
    /\ Idle
    /\ cloned
    /\ repairs < MaxRepairs
    /\ \E r \in {repairPlacements(nodes, featPl, "R", "R2")} :
           IF r.ok
           THEN /\ nodes' = r.ns
                /\ repairs' = repairs + 1
                /\ status' = "ok"
                /\ last' = Did("repair", 0, <<"ok">>)
           ELSE /\ status' = "aborted"
                /\ last' = Did("repair", 0, <<"abort">>)
                /\ UNCHANGED <<nodes, repairs>>
    /\ UNCHANGED <<handles, featPl, slots, cloned, disabled>>
    /\ UnchangedRealize

NextTree ==
    \/ \E f \in Features : PlaceConstant(f)
    \/ \E f \in Features, ord \in OperandOrders : PlaceExpr(f, ord)
    \/ PlaceFrame
    \/ \E f \in Features : RealizeCall(f)
    \/ ConstRealize
    \/ RefRealize
    \/ RefStore
    \/ ExprRealize
    \/ ExprApply
    \/ ExprReturn
    \/ FrameRealize
    \/ FrameStore
    \/ \E f \in Features : GetValue(f)
    \/ CloneTree
    \/ RepairPass

SpecTree == Init /\ [][NextTree]_vars

---------------------------------------------------------------------------
(* Properties *)

\* a realize call is in progress or has just returned
InCall == last.op \in {"call", "realize"}

\* C1: during one realize call a node writes its cache slot only after
\* every dependency has completed its own realize, and every dependency
\* value read is a constant literal or a slot set earlier in the same call
C1_DependenciesFirst ==
    InCall =>
       /\ \A n \in wrote :
             \A i \in 1..Len(Deps(nodes, featPl, n)) :
                Deps(nodes, featPl, n)[i] \in done
       /\ \A r \in reads : r.literal \/ r.fresh

\* the ordering half of C1 alone
WriteAfterDependencies ==
    InCall =>
       \A n \in wrote :
          \A i \in 1..Len(Deps(nodes, featPl, n)) :
             Deps(nodes, featPl, n)[i] \in done

\* C2: when realize() returns normally on a non-constant node that has a
\* cache slot, that slot is valid and was set by this realize
C2_RealizedSlotValid ==
    (/\ last.op = "realize"
     /\ last.res = <<"ok">>
     /\ ~isConstant(nodes, last.n)
     /\ hasValueSlot(nodes[last.n]))
       => /\ slots[nodes[last.n].slot].valid
          /\ last.n \in wrote

\* C3: a freshly built constant of any kind, built from the literal v,
\* answers getValue() with v, has no cache slot, and is constant
C3_ConstantValue ==
    [][\A h \in Handles, in \in ConstInputs :
          NewConst(h, in) =>
             /\ getValue(nodes', slots', handles'[h]) = {<<"value", in[2]>>}
             /\ ~hasValueSlot(nodes'[handles'[h]])
             /\ isConstant(nodes', handles'[h])]_vars

\* C4: getValue() on a non-constant node that has no cache slot, or whose
\* slot is not valid, fails fast
C4_GetValueBeforeRealize ==
    (/\ last.op = "getValue"
     /\ ~isConstant(nodes, last.n)
     /\ \/ ~hasValueSlot(nodes[last.n])
        \/ ~slots[nodes[last.n].slot].valid)
       => last.res = <<"abort">>

\* C5: after clone and repair every Feature Reference of the new tree
\* names a Feature of the new tree; after clone and before repair, if the
\* old tree refers to itself, some reference of the new tree still names a
\* Feature of the old tree
C5_RepairRetargets ==
    /\ repairs >= 1 =>
          \A n \in RefsOf(nodes, featPl, NewTree) : nodes[n].feat \in NewTree
    /\ (/\ cloned
        /\ repairs = 0
        /\ \E n \in RefsOf(nodes, featPl, OldTree) : nodes[n].feat \in OldTree)
          => \E n \in RefsOf(nodes, featPl, NewTree) : nodes[n].feat \in OldTree

C5_Witness ==
    /\ repairs >= 1
    /\ RefsOf(nodes, featPl, NewTree) # {}

\* C6: after the repair pass every slot pointer of the new tree's nodes
\* points to a slot of the new tree, and a realize call on a placement of
\* the new tree leaves the slots of the old tree alone
C6_SlotsRetargeted ==
    [][/\ repairs' >= 1 =>
             \A n \in NodesOf(nodes', featPl', NewTree) :
                hasValueSlot(nodes'[n]) => SlotOwner(nodes'[n].slot) \in NewTree
       /\ (/\ repairs >= 1
           /\ stack # <<>>
           /\ stack[1].n \in NodesOf(nodes, featPl, NewTree))
             => \A s \in SlotIds :
                   SlotOwner(s) \in OldTree => slots'[s] = slots[s]]_vars

C6_Witness ==
    /\ repairs >= 1
    /\ InCall
    /\ \E n \in wrote : n \in NodesOf(nodes, featPl, NewTree)

OutsideRef ==
    \E n \in RefsOf(nodes, featPl, NewTree) :
       nodes[n].feat \notin (OldTree \cup NewTree)

\* C8: the repair pass fails loudly when a reference of the new tree names
\* a Feature that has no counterpart under the new root
C8_RepairFailsLoudly ==
    [][(RepairPass /\ OutsideRef) => status' = "aborted"]_vars

C8_Witness ==
    /\ last = Did("repair", 0, <<"abort">>)
    /\ OutsideRef

\* the number of owners of the node n: client handles, Features, and
\* operand positions of live nodes
Owners(ns, hd, fp, n) ==
    Cardinality({h \in Handles : hd[h] = n})
    + Cardinality({f \in Features : fp[f] = n})
    + Cardinality({pi \in Live(ns) \X (1..2) :
                      /\ pi[2] <= Len(ns[pi[1]].args)
                      /\ ns[pi[1]].args[pi[2]] = n})

RECURSIVE Whole(_, _)
\* the placement held in node n: the node and, in order, its operands
Whole(ns, n) ==
    IF n \notin NodeIds THEN <<>>
    ELSE <<[ns[n] EXCEPT !.args = <<>>],
           [i \in 1..Len(ns[n].args) |-> Whole(ns, ns[n].args[i])]>>

\* C9: every node has exactly one owner, and a step that is not made
\* through the handle h (changing, rebinding or destroying another handle)
\* leaves the placement h holds, operands included, as it was
C9_SingleOwner ==
    [][/\ \A n \in Live(nodes') : Owners(nodes', handles', featPl', n) = 1
       /\ \A h \in Handles :
             (/\ handles[h] # 0
              /\ handles'[h] = handles[h]
              /\ nodes'[handles[h]] = nodes[handles[h]])
                => Whole(nodes', handles[h]) = Whole(nodes, handles[h])]_vars

C9_Witness ==
    \E h \in Handles, g \in Handles :
       /\ g # h
       /\ handles[h] # 0
       /\ nodes[handles[h]].ck = "expr"
       /\ handles[g] = 0

\* C10: every expression node satisfies its operator's checkArgs on its
\* operands, and clone and repair keep every node's operand kinds
C10_CheckArgs ==
    [][/\ \A n \in Live(nodes') :
             nodes'[n].ck = "expr" =>
                checkArgs(nodes'[n].op, KindsOf(nodes', nodes'[n].args))
       /\ (CloneTree \/ RepairPass) =>
             \A n \in Live(nodes) :
                /\ nodes'[n].op = nodes[n].op
                /\ KindsOf(nodes', nodes'[n].args) = KindsOf(nodes, nodes[n].args)]_vars

C10_Witness ==
    /\ last = Did("place", 0, <<"abort">>)
    /\ \E n \in Live(nodes) : nodes[n].ck = "expr"


---------------------------------------------------------------------------
(* Constancy and dependency queries *)

\* the node n holds no reference node, at any depth
ReferenceFree(ns, n) == \A m \in Subtree(ns, n) : ns[m].ck # "ref"

\* C11: an expression node is constant if and only if every one of its
\* operands is constant, and a frame composition if and only if both its
\* orientation and its origin are; so a node is constant exactly when no
\* reference occurs in it
C11_IsConstant ==
    \A n \in Live(nodes) :
       /\ nodes[n].ck = "expr" =>
             (isConstant(nodes, n) <=>
                \A i \in 1..Len(nodes[n].args) :
                   isConstant(nodes, nodes[n].args[i]))
       /\ nodes[n].ck = "frame" =>
             (isConstant(nodes, n) <=>
                /\ isConstant(nodes, nodes[n].args[1])
                /\ isConstant(nodes, nodes[n].args[2]))
       /\ isConstant(nodes, n) <=> ReferenceFree(nodes, n)

\* a constant expression next to an expression that is not constant
C11_Witness ==
    \E n \in Live(nodes), m \in Live(nodes) :
       /\ nodes[n].ck = "expr" /\ isConstant(nodes, n)
       /\ nodes[m].ck = "expr" /\ ~isConstant(nodes, m)

\* the Features a node refers to, directly or through the placements of
\* the Features it refers to
RECURSIVE Reaches(_, _, _)
Reaches(ns, fp, n) ==
    UNION {{ns[m].feat} \cup
           (IF fp[ns[m].feat] = 0 THEN {}
            ELSE Reaches(ns, fp, fp[ns[m].feat])) :
              m \in {k \in Subtree(ns, n) : ns[k].ck = "ref"}}

\* C12: an expression depends on f if and only if some operand does (a
\* frame composition: its orientation or its origin); a constant depends on
\* no Feature; a reference answers what the Feature it names answers
C12_DependsOn ==
    \A n \in Live(nodes), f \in Features :
       /\ nodes[n].ck = "expr" =>
             (dependsOn(nodes, featPl, n, f) <=>
                \E i \in 1..Len(nodes[n].args) :
                   dependsOn(nodes, featPl, nodes[n].args[i], f))
       /\ nodes[n].ck = "frame" =>
             (dependsOn(nodes, featPl, n, f) <=>
                \/ dependsOn(nodes, featPl, nodes[n].args[1], f)
                \/ dependsOn(nodes, featPl, nodes[n].args[2], f))
       /\ nodes[n].ck = "const" => ~dependsOn(nodes, featPl, n, f)
       /\ nodes[n].ck = "ref" =>
             (dependsOn(nodes, featPl, n, f) <=>
                FeatureDependsOn(nodes, featPl, nodes[n].feat, f))
       /\ dependsOn(nodes, featPl, n, f) <=> f \in Reaches(nodes, featPl, n)

\* the placement of the frame R depends, through S and V, on Z, and on no
\* Feature of another tree
C12_Witness ==
    /\ featPl["R"] # 0
    /\ nodes[featPl["R"]].ck = "frame"
    /\ dependsOn(nodes, featPl, featPl["R"], "Z")
    /\ ~dependsOn(nodes, featPl, featPl["R"], "R2")


---------------------------------------------------------------------------
(* Subtree confinement *)

\* the Features outside the tree under root that the reference nodes in
\* the operand positions of n name
Offenders(ns, n, root) ==
    {ns[m].feat : m \in {k \in Subtree(ns, n) \ {n} :
                            /\ ns[k].ck = "ref"
                            /\ ~isFeatureInFeatureTree(root, ns[k].feat)}}

\* C20: isLimitedToSubtree(root) answers, on a reference, false with the
\* referenced Feature as offender when that Feature is outside the tree
\* under root and true when it is inside; on a constant, true with no
\* offender; on an expression, true if and only if every operand is
\* limited, and otherwise an offender that an operand references outside
C20_LimitedToSubtree ==
    \A n \in Live(nodes), root \in Features :
       LET r == isLimitedToSubtree(nodes, n, root)
       IN  /\ nodes[n].ck = "ref" =>
                IF isFeatureInFeatureTree(root, nodes[n].feat)
                THEN r.ok
                ELSE ~r.ok /\ r.offender = nodes[n].feat
           /\ nodes[n].ck = "const" => r.ok /\ r.offender = NoFeature
           /\ nodes[n].ck = "expr" =>
                /\ r.ok <=> \A i \in 1..Len(nodes[n].args) :
                               isLimitedToSubtree(nodes, nodes[n].args[i],
                                                  root).ok
                /\ r.ok <=> Offenders(nodes, n, root) = {}
                /\ ~r.ok => r.offender \in Offenders(nodes, n, root)

\* under the root R the placement of S (a sum over a reference to V) is
\* limited, and the placement of V (a product over a reference to Z) is
\* not, with Z as the offender
C20_Witness ==
    /\ featPl["S"] # 0 /\ nodes[featPl["S"]].ck = "expr"
    /\ isLimitedToSubtree(nodes, featPl["S"], "R").ok
    /\ featPl["V"] # 0 /\ nodes[featPl["V"]].ck = "expr"
    /\ isLimitedToSubtree(nodes, featPl["V"], "R") =
          [ok |-> FALSE, offender |-> "Z"]


---------------------------------------------------------------------------
(* The operand rules of the operators *)

\* the operand lists a client can pass: none, one, two or three of its
\* placements
HandleLists ==
    {<<>>} \cup OperandLists \cup {<<a, b, a>> : a \in Handles, b \in Handles}

\* C17: for every operator of the real, 3-vector, station and direction
\* families that has a builder, checkArgs accepts an operand list exactly
\* when its length is the operator's arity and its kinds are the ones the
\* operator's builders take
C17_CheckArgsTable ==
    \A fam \in {"Real", "Vec3", "Station", "Direction"} :
    \A kind \in OpKindsOf(fam) \ {"AngleBetweenVectors"} :
    \A hs \in {l \in HandleLists : \A i \in 1..Len(l) : handles[l[i]] # 0} :
       LET ks == [i \in 1..Len(hs) |-> nodes[handles[hs[i]]].vk]
       IN  checkArgs(Op(fam, kind), ks) <=> ks \in BuilderOperands(Op(fam, kind))

\* the client holds a station and a 3-vector: station add accepts them in
\* this order only
C17_Witness ==
    /\ handles["h1"] # 0 /\ nodes[handles["h1"]].vk = "Station"
    /\ handles["h2"] # 0 /\ nodes[handles["h2"]].vk = "Vec3"
    /\ checkArgs(Op("Station", "Add"), <<"Station", "Vec3">>)
    /\ ~checkArgs(Op("Station", "Add"), <<"Vec3", "Station">>)
    /\ nodes[handles["h1"]].ck = "expr"


---------------------------------------------------------------------------
(* Rendering, generic operators and casts *)

\* C13: the text of a clone is the text of the original, for constants,
\* references, expressions and frame compositions, before any repair, and
\* cloning leaves the text of the original as it was
C13_CloneText ==
    last.op = "clone" =>
       /\ last.res[3] = last.res[2]
       /\ last.res[4] = last.res[2]
       /\ last.res[2] = toString(nodes, last.n)

\* a frame composition has been cloned
C13_Witness ==
    /\ last.op = "clone"
    /\ nodes[last.n].ck = "frame"
    /\ last.res[3] = <<"Frame[", <<"Ref<", <<"R", "O">>, ">">>, ", ",
                       <<"Ref<", <<"R", "S">>, ">">>, "]">>

\* the client's placements
Held == {handles[h] : h \in {g \in Handles : handles[g] # 0}}

\* the call failed with an exception
Threw(r) == r.id = 0 /\ r.res[1] = "threw"

C15_OperatorNotSupported ==
    \A a \in Held :
       \A g \in GenericUnaryOps \cup GenericBinaryOps :
       \A b \in IF g \in GenericUnaryOps THEN {0} ELSE Held :
          (\/ g \notin Overrides(nodes[a].vk)
           \/ nodes[a].vk = "Direction" /\ g \in {"Add", "Sub"}
           \/ nodes[a].vk \in {"Orientation", "Frame"})
          => generic(nodes, g, a, b) =
                [ns |-> nodes, id |-> 0,
                 res |-> <<"threw", "OperatorNotSupported", g, nodes[a].vk>>]

\* genericAdd has been called on a direction
C15_Witness ==
    /\ last = Did("genericAdd", 0, OperatorNotSupported("Add", "Direction"))
    /\ \E a \in Held : nodes[a].vk = "Direction"

\* C16: for two operands that can be cast to a direction, genericAngle
\* yields a real expression node named "angle<Real>" over them
C16_AngleBuildable ==
    \A a \in Held, b \in Held :
       DirectionCastable(nodes[a].vk) /\ DirectionCastable(nodes[b].vk) =>
          LET r == generic(nodes, "Angle", a, b)
          IN  /\ r.res = <<"ok">>
              /\ r.ns[r.id].vk = "Real"
              /\ getOpName(r.ns[r.id].op) = "angle<Real>"
              /\ Len(r.ns[r.id].args) = 2

\* the four conditions of StationFeaturePlacementRep::castToFramePlacement
OnFrame(nd) ==
    /\ nd.idx = -1
    /\ FeatureKind(nd.feat) = "Station"
    /\ hasParentFeature(nd.feat)
    /\ FeatureKind(getParentFeature(nd.feat)) = "Frame"

\* the cast r of the reference nd built the frame of the parent's
\* orientation and nd's station, or failed naming nd's Feature and its kind
CastResult(nd, r) ==
    IF r.res = <<"ok">>
    THEN /\ r.ns[r.id].ck = "frame"
         /\ r.ns[r.ns[r.id].args[1]].feat = getOrientation(getParentFeature(nd.feat))
         /\ r.ns[r.ns[r.id].args[2]].feat = nd.feat
         /\ r.ns[r.ns[r.id].args[2]].vk = "Station"
    ELSE /\ Threw(r)
         /\ r.ns = nodes
         /\ r.res[3] = getFullName(nd.feat)
         /\ r.res[4] = FeatureKind(nd.feat)

\* C18 as stated: the cast of a reference to a frame succeeds exactly when
\* the reference is not indexed and names a station whose parent is a frame
C18_RefCastToFrame ==
    \A a \in Held :
       nodes[a].ck = "ref" =>
          LET r == castToFramePlacement(nodes, a)
          IN  /\ r.res = <<"ok">> <=> OnFrame(nodes[a])
              /\ CastResult(nodes[a], r)

\* C18, amended: the cast of a reference to a frame succeeds exactly when
\* the reference is of station kind, is not indexed and names a station
\* whose parent is a frame; it then yields the frame of the parent's
\* orientation with this station as origin; otherwise it fails, naming
\* the Feature and its kind, and builds nothing
C18_StationRefCastToFrame ==
    \A a \in Held :
       nodes[a].ck = "ref" =>
          LET r == castToFramePlacement(nodes, a)
          IN  /\ r.res = <<"ok">> <=>
                    nodes[a].vk = "Station" /\ OnFrame(nodes[a])
              /\ CastResult(nodes[a], r)

\* the reference to the station S on the frame R has been cast to a frame
C18_Witness ==
    /\ last.op = "castToFramePlacement"
    /\ last.res = <<"ok">>
    /\ handles["h1"] = last.n
    /\ nodes[last.n].ck = "frame"
    /\ nodes[nodes[last.n].args[1]].feat = "O"
    /\ nodes[nodes[last.n].args[2]].feat = "S"

\* the calls that can fail with a typed error
DispatchCalls ==
    {"castToFramePlacement"} \cup
    {"generic" \o g : g \in GenericUnaryOps \cup GenericBinaryOps}

\* C19: an illegal cast, an unsupported generic operator and an unsupported
\* operand combination are typed errors, never an abort, and leave every
\* node, handle, Feature placement and cache slot as it was
C19_TypedErrors ==
    [][last'.op \in DispatchCalls =>
          /\ status' = "ok"
          /\ last'.res[1] = "threw" =>
                /\ last'.res[2] \in {"CannotBeUsedAs", "OperatorNotSupported",
                                     "UnsupportedCombination",
                                     "FeatureUsedAsFramePlacementMustBeOnFrame"}
                /\ UNCHANGED <<nodes, handles, featPl, slots>>]_vars

\* castToFramePlacement has failed on a real constant, and the client
\* still holds it
C19_Witness ==
    /\ last = Did("castToFramePlacement", 0,
                  CannotBeUsedAs("const", "Real", "Frame"))
    /\ status = "ok"
    /\ \E a \in Held : nodes[a].ck = "const" /\ nodes[a].vk = "Real"


---------------------------------------------------------------------------
(* Worked examples of the generic operators *)

\* the node c holds what the node d holds: class, kind, literal, reference
SameContent(c, d) ==
    /\ c.ck = d.ck /\ c.vk = d.vk /\ c.val = d.val
    /\ c.feat = d.feat /\ c.idx = d.idx /\ c.op = d.op

\* C21: for a constant station s and a constant 3-vector v, s.genericAdd(v)
\* is a station expression named "add<Station>" over (s, v), in that
\* order, and is constant
C21_StationPlusVec3 ==
    \A s \in Held, v \in Held :
       /\ nodes[s].ck = "const" /\ nodes[s].vk = "Station"
       /\ nodes[v].ck = "const" /\ nodes[v].vk = "Vec3"
       => LET r == generic(nodes, "Add", s, v)
              e == r.ns[r.id]
          IN  /\ r.res = <<"ok">>
              /\ e.ck = "expr" /\ e.vk = "Station"
              /\ getOpName(e.op) = "add<Station>"
              /\ Len(e.args) = 2
              /\ SameContent(r.ns[e.args[1]], nodes[s])
              /\ SameContent(r.ns[e.args[2]], nodes[v])
              /\ isConstant(r.ns, r.id)

\* the client holds the sum of a constant station and a constant 3-vector
C21_Witness ==
    /\ last.op = "genericAdd" /\ last.res = <<"ok">>
    /\ handles["h1"] = last.n
    /\ getOpName(nodes[last.n].op) = "add<Station>"
    /\ nodes[nodes[last.n].args[1]].ck = "const"
    /\ nodes[nodes[last.n].args[1]].vk = "Station"
    /\ nodes[nodes[last.n].args[2]].ck = "const"
    /\ nodes[nodes[last.n].args[2]].vk = "Vec3"

\* C22: for a reference to a Feature X of real kind, genericNegate is a
\* real expression named "negate<Real>" that is not constant and depends
\* on X; a reference is never constant, nor is an expression with a
\* reference among its operands
C22_NegateOfReference ==
    /\ \A a \in Held :
          /\ nodes[a].ck = "ref" /\ nodes[a].vk = "Real"
          /\ FeatureKind(nodes[a].feat) = "Real"
          => LET r == generic(nodes, "Negate", a, 0)
                 e == r.ns[r.id]
             IN  /\ r.res = <<"ok">>
                 /\ e.ck = "expr" /\ e.vk = "Real"
                 /\ getOpName(e.op) = "negate<Real>"
                 /\ ~isConstant(r.ns, r.id)
                 /\ dependsOn(r.ns, featPl, r.id, nodes[a].feat)
    /\ \A n \in Live(nodes) :
          /\ nodes[n].ck = "ref" => ~isConstant(nodes, n)
          /\ (/\ nodes[n].ck = "expr"
              /\ \E i \in 1..Len(nodes[n].args) :
                    nodes[nodes[n].args[i]].ck = "ref")
             => ~isConstant(nodes, n)

\* the client holds the negation of a reference to the real Feature Z
C22_Witness ==
    /\ last.op = "genericNegate" /\ last.res = <<"ok">>
    /\ handles["h1"] = last.n
    /\ getOpName(nodes[last.n].op) = "negate<Real>"
    /\ nodes[nodes[last.n].args[1]].ck = "ref"
    /\ nodes[nodes[last.n].args[1]].feat = "Z"


---------------------------------------------------------------------------
(* Ancestor lookup *)

\* C23: findAncestorFeature on a constant of any kind ends the process; it
\* returns neither a Feature nor a null result
C23_ConstantHasNoAncestor ==
    (last.op = "findAncestorFeature" /\ nodes[last.n].ck = "const")
       => status = "aborted" /\ last.res = <<"abort">>

\* the lookup has been called on a station constant while the client also
\* holds a reference, on which it answers
C23_Witness ==
    /\ last.op = "findAncestorFeature"
    /\ nodes[last.n].ck = "const" /\ nodes[last.n].vk = "Station"
    /\ status = "aborted"
    /\ \E a \in Held : /\ nodes[a].ck = "ref"
                       /\ findAncestorFeature(nodes, a, "R") = <<"found", "S">>


---------------------------------------------------------------------------
(* Unilateral contacts *)

\* C24: for every unilateral contact, disable returns true exactly when the
\* contact was enabled and leaves it disabled, enable returns true exactly
\* when it was disabled and leaves it enabled, and a call that returns
\* false leaves the state as it was
C24_EnableDisable ==
    [][\A c \in Contacts :
          /\ (last'.op = "disable" /\ last'.res[1] = c) =>
                /\ last'.res[2] <=> isEnabled(disabled, c)
                /\ ~isEnabled(disabled', c)
                /\ ~last'.res[2] => disabled' = disabled
                /\ \A d \in Contacts \ {c} : disabled'[d] = disabled[d]
          /\ (last'.op = "enable" /\ last'.res[1] = c) =>
                /\ last'.res[2] <=> ~isEnabled(disabled, c)
                /\ isEnabled(disabled', c)
                /\ ~last'.res[2] => disabled' = disabled
                /\ \A d \in Contacts \ {c} : disabled'[d] = disabled[d]]_vars

\* a contact has been disabled and enabled again while another is disabled
C24_Witness ==
    /\ last = Did("enable", 0, <<"PointPlaneContact", TRUE>>)
    /\ isEnabled(disabled, "PointPlaneContact")
    /\ ~isEnabled(disabled, "HardStopUpper")

\* the inputs the asserts of calcEffectiveCOR admit
Admissible(minCOR, captureSpeed, minCORSpeed, impactSpeed) ==
    /\ RatLeq(Rat(0, 1), minCOR) /\ RatLeq(minCOR, Rat(1, 1))
    /\ RatLeq(Rat(0, 1), captureSpeed) /\ RatLeq(captureSpeed, minCORSpeed)
    /\ RatLeq(Rat(0, 1), impactSpeed)

\* between the capture speed and minCORSpeed the value r lies on the line
\* through (0, 1) and (minCORSpeed, minCOR), within [minCOR, 1], and is not
\* below the value at any higher speed in that range
OnTheLine(minCOR, captureSpeed, minCORSpeed, impactSpeed, r) ==
    /\ r # NaNReal
    /\ RatLeq(minCOR, r) /\ RatLeq(r, Rat(1, 1))
    /\ RatMul(RatSub(Rat(1, 1), r), minCORSpeed)
          = RatMul(RatSub(Rat(1, 1), minCOR), impactSpeed)
    /\ \A w \in Speeds :
          RatLess(impactSpeed, w) /\ RatLess(w, minCORSpeed) =>
             RatLeq(calcEffectiveCOR(minCOR, captureSpeed, minCORSpeed, w)[2], r)

---------------------------------------------------------------------------
(* Slots, owners and handles of the nodes *)

\* C26: a node holds a cache slot only if it is not constant, and every
\* node that is not constant and reports isRealizable() holds a cache slot
C26_SlotOnlyIfNotConstant ==
    \A n \in Live(nodes) :
       /\ hasValueSlot(nodes[n]) => ~isConstant(nodes, n)
       /\ (~isConstant(nodes, n) /\ isRealizable(nodes, n)) => hasValueSlot(nodes[n])

\* C27: the owner link and the index in the owner of every node are both
\* present or both absent: owner is null exactly when the index is -1
C27_OwnerAndIndex ==
    \A n \in Live(nodes) : hasOwner(nodes[n]) <=> nodes[n].indexInOwner # -1

\* C29: cloneUnownedWithNewHandle(p) gives p a new node of the same kind
\* and structure as the source, whose handle is p, whose owner is absent
\* and whose index is -1; the new node's slot pointer is the source's, and
\* the source node is unchanged
C29_CloneUnowned ==
    [][\A dst \in Handles, src \in Handles :
          CopyHandle(dst, src) =>
             LET a == handles[src]
                 c == handles'[dst]
             IN  /\ c \notin Live(nodes) /\ c \in Live(nodes')
                 /\ SameContent(nodes'[c], nodes[a])
                 /\ toString(nodes', c) = toString(nodes, a)
                 /\ nodes'[c].handle = ClientHandle(dst)
                 /\ ~hasOwner(nodes'[c])
                 /\ nodes'[c].indexInOwner = -1
                 /\ nodes'[c].slot = nodes[a].slot
                 /\ nodes'[a] = nodes[a]
                 /\ Whole(nodes', a) = Whole(nodes, a)]_vars

\* a node that has an owner and a slot has been copied: the copy has no
\* owner and the same slot
C29_Witness ==
    \E g \in Handles \ {"h1"} :
       /\ handles["h1"] # 0 /\ handles[g] # 0
       /\ hasOwner(nodes[handles["h1"]])
       /\ hasValueSlot(nodes[handles["h1"]])
       /\ ~hasOwner(nodes[handles[g]])
       /\ nodes[handles[g]].slot = nodes[handles["h1"]].slot
       /\ nodes[handles[g]].handle = ClientHandle(g)

---------------------------------------------------------------------------
(* Realizing frames and nodes without a slot *)

\* C28: realize of a frame composition without a cache slot fails before
\* anything is realized; otherwise the origin is realized only after the
\* orientation has been, and the frame's slot is written only after both
\* have been realized, with Mat34(ori(0), ori(1), ori(2), origin) built
\* from the values the two parts return
C28_FrameRealize ==
    [][\A n \in Live(nodes) :
          nodes[n].ck = "frame" =>
             LET o == nodes[n].args[1]
                 s == nodes[n].args[2]
             IN  /\ (Running /\ Top.n = n /\ ~hasValueSlot(nodes[n])) =>
                       /\ status' = "aborted"
                       /\ stack' = stack
                       /\ slots' = slots
                 /\ (/\ Len(stack') > Len(stack)
                     /\ stack'[Len(stack')].n = s) => o \in done
                 /\ (Running /\ Top.n = n /\ slots' # slots) =>
                       n \in wrote' \ wrote
                 /\ n \in wrote' \ wrote =>
                       /\ hasValueSlot(nodes[n])
                       /\ o \in done /\ s \in done
                       /\ \E ro \in getValue(nodes, slots, o),
                             rs \in getValue(nodes, slots, s) :
                             /\ ro # <<"abort">> /\ rs # <<"abort">>
                             /\ slots' = setValue(slots, nodes[n].slot,
                                   Mat34Value(Column(ro[2], 0), Column(ro[2], 1),
                                              Column(ro[2], 2), rs[2]))]_vars

\* the realize of a frame composition has returned after writing its slot
C28_Witness ==
    /\ last.op = "realize" /\ last.res = <<"ok">>
    /\ nodes[last.n].ck = "frame"
    /\ last.n \in wrote
    /\ nodes[last.n].args[1] \in done /\ nodes[last.n].args[2] \in done
    /\ slots[nodes[last.n].slot].valid
    /\ slots[nodes[last.n].slot].value[1] = "Mat34"

\* C30: while realize() runs on a node that is not constant and has no
\* cache slot, no cache slot is modified, and that call does not return
\* normally
C30_NoSlotFailsFirst ==
    [][\A i \in 1..Len(stack) :
          (/\ status = "ok"
           /\ ~isConstant(nodes, stack[i].n)
           /\ ~hasValueSlot(nodes[stack[i].n])) =>
              /\ slots' = slots
              /\ Len(stack') >= i]_vars

===========================================================================
